---- MODULE Spec2Model ----
(***************************************************************************)
(* Candidate-generation core of the BoTorch strategy: column layout,       *)
(* fixed-feature resolver, categorical and n-choose-k combination          *)
(* enumerators, fixed-value composer, and the ask/tell orchestrator.       *)
(*                                                                         *)
(* A fixed-feature dictionary (Dict[int, float]) is a function from a      *)
(* finite set of 0-based column indices to numbers.  A DataFrame of        *)
(* experiments or candidates is represented by its number of rows.         *)
(***************************************************************************)
EXTENDS Integers, Sequences, FiniteSets, TLC

VARIABLES
    domain,                     \* [inputs: Seq(feature), constraints: Seq(NChooseKConstraint)]
    input_preprocessing_specs,  \* feature key -> CategoricalEncodingEnum
    categorical_method,         \* CategoricalMethodEnum
    descriptor_method,          \* CategoricalMethodEnum
    discrete_method,            \* CategoricalMethodEnum
    experiments,                \* Strategy._experiments: None_ or the number of rows
    candidates,                 \* Strategy.num_candidates: number of pending rows (0 when None)
    is_fitted,                  \* PredictiveStrategy.is_fitted
    model,                      \* BotorchStrategy.model: "None" or "model", the fitted botorch model
    acqf,                       \* BotorchStrategy.acqf: "None" or "acqf"
    last                        \* outcome of the last call made on the strategy

config == <<domain, input_preprocessing_specs, categorical_method,
            descriptor_method, discrete_method>>
vars == <<domain, input_preprocessing_specs, categorical_method,
          descriptor_method, discrete_method, experiments, candidates,
          is_fitted, model, acqf, last>>

-----------------------------------------------------------------------------
(* Bounds of the model *)

MaxCats == 3
MaxDiscrete == 2
MaxRows == 2
MaxExperiments == 5
MaxCandidateCount == 1
MaxPending == 2
MaxPool == 1
MaxSamples == 33

-----------------------------------------------------------------------------
(* Generic helpers *)

Range(s) == {s[i] : i \in DOMAIN s}

RECURSIVE FlattenSeq(_)
FlattenSeq(ss) == IF ss = <<>> THEN <<>> ELSE Head(ss) \o FlattenSeq(Tail(ss))

SeqMin(s) == CHOOSE x \in Range(s) : \A y \in Range(s) : x <= y
SeqMax(s) == CHOOSE x \in Range(s) : \A y \in Range(s) : x >= y

IndexOf(s, x) == CHOOSE i \in DOMAIN s : s[i] = x /\ \A j \in 1..(i - 1) : s[j] # x

\* itertools.product(*lists): tuples in lexicographic order, last list fastest
RECURSIVE Product(_)
Product(lists) ==
    IF lists = <<>> THEN << <<>> >>
    ELSE LET rest == Product(Tail(lists))
             hd == Head(lists)
         IN  FlattenSeq([i \in 1..Len(hd) |->
                            [j \in 1..Len(rest) |-> <<hd[i]>> \o rest[j]]])

\* itertools.combinations(s, k): k-subsequences of s in lexicographic index order
RECURSIVE Combinations(_, _)
Combinations(s, k) ==
    IF k = 0 THEN << <<>> >>
    ELSE IF Len(s) < k THEN <<>>
    ELSE LET with == Combinations(Tail(s), k - 1)
         IN  [j \in 1..Len(with) |-> <<Head(s)>> \o with[j]]
             \o Combinations(Tail(s), k)

\* Python dict operations
EmptyDict == <<>>
\* d[k] = v
DictSet(d, k, v) == (k :> v) @@ d
\* d.update(e)
\* DictUpdate in which a key already in d keeps its value
DictUpdateKeepExisting(d, e) == d @@ e

DictUpdate(d, e) == e @@ d

-----------------------------------------------------------------------------
(* Data model: features, encodings, constraints *)

None_ == -1

EXHAUSTIVE == "EXHAUSTIVE"
FREE == "FREE"
CategoricalMethodEnum == {EXHAUSTIVE, FREE}

ONE_HOT == "ONE_HOT"
ORDINAL == "ORDINAL"
DUMMY == "DUMMY"
DESCRIPTOR == "DESCRIPTOR"

ContinuousInput(key, lower, upper) ==
    [key |-> key, type |-> "ContinuousInput", bounds |-> <<lower, upper>>,
     categories |-> <<>>, allowed |-> <<>>, values |-> <<>>]

DiscreteInput(key, values) ==
    [key |-> key, type |-> "DiscreteInput", bounds |-> <<>>,
     categories |-> <<>>, allowed |-> <<>>, values |-> values]

CategoricalInput(key, categories, allowed) ==
    [key |-> key, type |-> "CategoricalInput", bounds |-> <<>>,
     categories |-> categories, allowed |-> allowed, values |-> <<>>]

\* values[i] is the descriptor vector of categories[i]
CategoricalDescriptorInput(key, categories, allowed, values) ==
    [key |-> key, type |-> "CategoricalDescriptorInput", bounds |-> <<>>,
     categories |-> categories, allowed |-> allowed, values |-> values]

NChooseKConstraint(features, min_count, max_count, none_also_valid) ==
    [features |-> features, min_count |-> min_count, max_count |-> max_count,
     none_also_valid |-> none_also_valid]

\* isinstance(feat, cls) over the input class hierarchy
IsInstance(feat, cls) ==
    \/ cls = "Input"
    \/ feat.type = cls
    \/ cls = "CategoricalInput" /\ feat.type = "CategoricalDescriptorInput"

IsInstanceAny(feat, classes) == \E cls \in classes : IsInstance(feat, cls)

\* position of a feature class in the sorted feature list
OrderId(type) ==
    CASE type = "ContinuousInput" -> 1
      [] type = "DiscreteInput" -> 2
      [] type = "CategoricalDescriptorInput" -> 3
      [] type = "CategoricalInput" -> 4

\* rank of a feature key in the string order of the keys
KeyRank(key) ==
    CASE key = "a" -> 1 [] key = "b" -> 2 [] key = "c" -> 3
      [] key = "d" -> 4 [] key = "e" -> 5 [] key = "v" -> 6

\* Feature.__lt__: by class, then by key
FeatureLess(f, g) ==
    \/ OrderId(f.type) < OrderId(g.type)
    \/ OrderId(f.type) = OrderId(g.type) /\ KeyRank(f.key) < KeyRank(g.key)

\* sorted(features): insertion sort
RECURSIVE InsertFeature(_, _)
InsertFeature(sorted, f) ==
    IF sorted = <<>> THEN <<f>>
    ELSE IF FeatureLess(f, Head(sorted)) THEN <<f>> \o sorted
    ELSE <<Head(sorted)>> \o InsertFeature(Tail(sorted), f)

\* SortFeatures that keeps the features in the order of their declaration
SortFeaturesAsDeclared(fs) == fs

SortFeatures(fs) ==
    LET F[i \in 0..Len(fs)] ==
            IF i = 0 THEN <<>> ELSE InsertFeature(F[i - 1], fs[i])
    IN  F[Len(fs)]

\* Inputs_get that collects the features class by class, so that a feature that
\* is an instance of two included classes is listed twice
Inputs_get_per_class(includes, excludes) ==
    LET classes == <<"Input", "ContinuousInput", "DiscreteInput",
                     "CategoricalInput", "CategoricalDescriptorInput">>
        of_class(cls) ==
            LET keep(f) == IsInstance(f, cls) /\ ~IsInstanceAny(f, excludes)
            IN  IF cls \in includes
                THEN SelectSeq(SortFeatures(domain.inputs), keep) ELSE <<>>
    IN  FlattenSeq([i \in DOMAIN classes |-> of_class(classes[i])])

\* Inputs.get(includes, excludes): sorted features filtered by class
Inputs_get(includes, excludes) ==
    LET keep(f) == IsInstanceAny(f, includes) /\ ~IsInstanceAny(f, excludes)
    IN  SelectSeq(SortFeatures(domain.inputs), keep)

\* Inputs.get_keys
Keys(fs) == [i \in 1..Len(fs) |-> fs[i].key]

get_feature(key) == CHOOSE f \in Range(domain.inputs) : f.key = key

get_allowed_categories(feat) ==
    LET F[i \in 0..Len(feat.categories)] ==
            IF i = 0 THEN <<>>
            ELSE IF feat.allowed[i] THEN Append(F[i - 1], feat.categories[i])
            ELSE F[i - 1]
    IN  F[Len(feat.categories)]

\* get_forbidden_categories that reports no category as forbidden
get_forbidden_categories_none(feat) == <<>>

get_forbidden_categories(feat) ==
    LET F[i \in 0..Len(feat.categories)] ==
            IF i = 0 THEN <<>>
            ELSE IF ~feat.allowed[i] THEN Append(F[i - 1], feat.categories[i])
            ELSE F[i - 1]
    IN  F[Len(feat.categories)]

is_fixed(feat) ==
    CASE feat.type = "ContinuousInput" -> feat.bounds[1] = feat.bounds[2]
      [] feat.type = "DiscreteInput" -> SeqMin(feat.values) = SeqMax(feat.values)
      [] OTHER -> Len(get_allowed_categories(feat)) = 1

\* CategoricalInput.to_onehot_encoding of a single value: one row, one column per category
to_onehot_encoding(feat, val) ==
    [j \in 1..Len(feat.categories) |-> IF feat.categories[j] = val THEN 1 ELSE 0]

\* CategoricalDescriptorInput.to_descriptor_encoding of a single value
to_descriptor_encoding(feat, val) == feat.values[IndexOf(feat.categories, val)]

\* Input.fixed_value(transform_type): the encoded value of a fixed feature;
\* only called on fixed features
fixed_value(feat, transform_type) ==
    CASE feat.type = "ContinuousInput" -> <<feat.bounds[1]>>
      [] feat.type = "DiscreteInput" -> <<SeqMin(feat.values)>>
      [] OTHER ->
            LET val == get_allowed_categories(feat)[1]
            IN  CASE transform_type = ONE_HOT -> to_onehot_encoding(feat, val)
                  [] transform_type = DESCRIPTOR -> to_descriptor_encoding(feat, val)
                  [] transform_type = ORDINAL -> <<IndexOf(feat.categories, val) - 1>>
                  [] OTHER -> <<val>>

\* descriptor_bounds with the min and max taken over all categories instead of
\* the allowed ones
descriptor_bounds_over_all_categories(feat) ==
    LET rows == DOMAIN feat.categories
        ncol == Len(feat.values[1])
        col(j) == {feat.values[i][j] : i \in rows}
    IN  << [j \in 1..ncol |-> CHOOSE x \in col(j) : \A y \in col(j) : x <= y],
           [j \in 1..ncol |-> CHOOSE x \in col(j) : \A y \in col(j) : x >= y] >>

\* CategoricalDescriptorInput.get_bounds(DESCRIPTOR): per descriptor column the
\* min and max over the allowed categories
descriptor_bounds(feat) ==
    LET rows == {i \in DOMAIN feat.categories : feat.allowed[i]}
        ncol == Len(feat.values[1])
        col(j) == {feat.values[i][j] : i \in rows}
    IN  << [j \in 1..ncol |-> CHOOSE x \in col(j) : \A y \in col(j) : x <= y],
           [j \in 1..ncol |-> CHOOSE x \in col(j) : \A y \in col(j) : x >= y] >>

-----------------------------------------------------------------------------
(* Column layout *)

specs_get(key) ==
    IF key \in DOMAIN input_preprocessing_specs
    THEN input_preprocessing_specs[key] ELSE "None"

\* number of columns a feature occupies under its encoding
ColumnCount(feat) ==
    LET enc == specs_get(feat.key)
    IN  CASE enc = ONE_HOT -> Len(feat.categories)
          [] enc = DUMMY -> Len(feat.categories) - 1
          [] enc = DESCRIPTOR -> Len(feat.values[1])
          [] OTHER -> 1

\* TransformInfo whose column offset advances by one per feature instead of by
\* the number of columns of the feature
TransformInfoUnitStride(fs) ==
    [key \in {f.key : f \in Range(fs)} |->
        LET i == CHOOSE k \in DOMAIN fs : fs[k].key = key
        IN  [j \in 1..ColumnCount(fs[i]) |-> (i - 1) + j - 1]]

\* Inputs._get_transform_info(specs)[0] over the sorted features fs:
\* feature key -> tuple of column indices
TransformInfo(fs) ==
    LET \* counter[i]: the running column offset after the first i features
        counter[i \in 0..Len(fs)] ==
            IF i = 0 THEN 0 ELSE counter[i - 1] + ColumnCount(fs[i])
    IN  [key \in {f.key : f \in Range(fs)} |->
            LET i == CHOOSE k \in DOMAIN fs : fs[k].key = key
            IN  [j \in 1..ColumnCount(fs[i]) |-> counter[i - 1] + j - 1]]

\* BotorchStrategy._features2idx
features2idx == TransformInfo(SortFeatures(domain.inputs))

-----------------------------------------------------------------------------
(* Fixed-feature resolver *)

\* PinColumns that pins only the first column of the feature
PinColumnsFirstOnly(d, idxs, vals) ==
    IF Len(idxs) = 0 THEN d ELSE DictSet(d, idxs[1], vals[1])

\* for j, idx in enumerate(idxs): d[idx] = vals[j]
PinColumns(d, idxs, vals) ==
    LET F[j \in 0..Len(idxs)] ==
            IF j = 0 THEN d ELSE DictSet(F[j - 1], idxs[j], vals[j])
    IN  F[Len(idxs)]

\* first loop of get_fixed_features over the features fs: the encoded value of
\* every fixed feature on its columns
PinFixedInputs(fs, f2i) ==
    LET F[i \in 0..Len(fs)] ==
            IF i = 0 THEN EmptyDict
            ELSE IF is_fixed(fs[i])
                 THEN PinColumns(F[i - 1], f2i[fs[i].key],
                                 fixed_value(fs[i], specs_get(fs[i].key)))
                 ELSE F[i - 1]
    IN  F[Len(fs)]

FixedInputPins(f2i) == PinFixedInputs(Inputs_get({"Input"}, {}), f2i)

\* second block over the one-hot categoricals fs: 0 on the column of every
\* forbidden category of a categorical that is not fixed
PinForbiddenCategories(d, fs, f2i) ==
    LET pin_category(e, f, cat) ==
            LET transformed == to_onehot_encoding(f, cat)
                idxs == f2i[f.key]
                G[j \in 0..Len(idxs)] ==
                    IF j = 0 THEN e
                    ELSE IF transformed[j] = 1 THEN DictSet(G[j - 1], idxs[j], 0)
                    ELSE G[j - 1]
            IN  G[Len(idxs)]
        pin_feature(e, f, cats) ==
            LET H[k \in 0..Len(cats)] ==
                    IF k = 0 THEN e ELSE pin_category(H[k - 1], f, cats[k])
            IN  H[Len(cats)]
        F[i \in 0..Len(fs)] ==
            IF i = 0 THEN d
            ELSE IF is_fixed(fs[i]) THEN F[i - 1]
            ELSE pin_feature(F[i - 1], fs[i], get_forbidden_categories(fs[i]))
    IN  F[Len(fs)]

ForbiddenCategoryPins(d, f2i) ==
    IF categorical_method = FREE /\ ONE_HOT \in Range(input_preprocessing_specs)
    THEN LET keep(f) == input_preprocessing_specs[f.key] = ONE_HOT
         IN  PinForbiddenCategories(
                 d, SelectSeq(Inputs_get({"CategoricalInput"}, {}), keep), f2i)
    ELSE d

\* third block over the descriptor-encoded categoricals fs: the value of every
\* descriptor column that is constant over the allowed categories of a
\* categorical that is not fixed
PinConstantDescriptors(d, fs, f2i) ==
    LET pin_feature(e, idxs, b) ==
            LET G[j \in 0..Len(idxs)] ==
                    IF j = 0 THEN e
                    ELSE IF b[1][j] = b[2][j] THEN DictSet(G[j - 1], idxs[j], b[1][j])
                    ELSE G[j - 1]
            IN  G[Len(idxs)]
        F[i \in 0..Len(fs)] ==
            IF i = 0 THEN d
            ELSE IF is_fixed(fs[i]) THEN F[i - 1]
            ELSE pin_feature(F[i - 1], f2i[fs[i].key], descriptor_bounds(fs[i]))
    IN  F[Len(fs)]

ConstantDescriptorPins(d, f2i) ==
    IF descriptor_method = FREE /\ DESCRIPTOR \in Range(input_preprocessing_specs)
    THEN LET keep(f) == input_preprocessing_specs[f.key] = DESCRIPTOR
         IN  PinConstantDescriptors(
                 d, SelectSeq(Inputs_get({"CategoricalDescriptorInput"}, {}), keep), f2i)
    ELSE d

\* the three blocks of get_fixed_features in their order, on the layout f2i
FixedFeatures(f2i) ==
    ConstantDescriptorPins(ForbiddenCategoryPins(FixedInputPins(f2i), f2i), f2i)

get_fixed_features == FixedFeatures(features2idx)

-----------------------------------------------------------------------------
(* Categorical combination enumerator *)

\* the (key, value) pairs of one feature
KeyValuePairs(key, vals) == [k \in 1..Len(vals) |-> <<key, vals[k]>>]

\* per feature the list of its (key, value) pairs: allowed categories of a
\* categorical, values of a discrete input
ValueLists(features) ==
    [i \in 1..Len(features) |->
        IF IsInstance(features[i], "CategoricalInput")
        THEN KeyValuePairs(features[i].key, get_allowed_categories(features[i]))
        ELSE KeyValuePairs(features[i].key, features[i].values)]

\* Inputs.get_categorical_combinations(include, exclude): tuples of (key, value) pairs
Inputs_get_categorical_combinations(include, exclude) ==
    LET keep(f) == (IsInstance(f, "CategoricalInput") /\ ~is_fixed(f))
                   \/ IsInstance(f, "DiscreteInput")
    IN  Product(ValueLists(SelectSeq(Inputs_get(include, exclude), keep)))

\* the include / exclude class filters chosen from the three methods
\* EnumInclude that includes the discrete inputs whatever discrete_method is
EnumIncludeDiscreteAlways ==
    {"DiscreteInput"}
    \cup (IF categorical_method = EXHAUSTIVE THEN {"CategoricalInput"} ELSE {})
    \cup (IF descriptor_method = EXHAUSTIVE THEN {"CategoricalDescriptorInput"} ELSE {})

EnumInclude ==
    (IF discrete_method = EXHAUSTIVE THEN {"DiscreteInput"} ELSE {})
    \cup (IF categorical_method = EXHAUSTIVE THEN {"CategoricalInput"} ELSE {})
    \cup (IF descriptor_method = EXHAUSTIVE THEN {"CategoricalDescriptorInput"} ELSE {})

\* EnumExclude without the reset of the exclusion when descriptor_method is EXHAUSTIVE
EnumExcludeNeverReset ==
    IF categorical_method = EXHAUSTIVE THEN {"CategoricalDescriptorInput"} ELSE {}

EnumExclude ==
    IF categorical_method = EXHAUSTIVE /\ descriptor_method # EXHAUSTIVE
    THEN {"CategoricalDescriptorInput"} ELSE {}

\* OverlayPair that sets only the column of the chosen category of a one-hot categorical
OverlayPairHotColumnOnly(d, pair, f2i) ==
    LET feat == pair[1]
        val == pair[2]
        feature == get_feature(feat)
        idxs == f2i[feat]
    IN  IF IsInstance(feature, "CategoricalDescriptorInput")
           /\ input_preprocessing_specs[feat] = DESCRIPTOR
        THEN PinColumns(d, idxs, feature.values[IndexOf(feature.categories, val)])
        ELSE IF IsInstance(feature, "CategoricalInput")
        THEN DictSet(d, idxs[IndexOf(feature.categories, val)], 1)
        ELSE IF IsInstance(feature, "DiscreteInput")
        THEN DictSet(d, idxs[1], val)
        ELSE d

\* OverlayPair that sets nothing for a discrete input
OverlayPairWithoutDiscrete(d, pair, f2i) ==
    LET feat == pair[1]
        val == pair[2]
        feature == get_feature(feat)
        idxs == f2i[feat]
    IN  IF IsInstance(feature, "CategoricalDescriptorInput")
           /\ input_preprocessing_specs[feat] = DESCRIPTOR
        THEN PinColumns(d, idxs, feature.values[IndexOf(feature.categories, val)])
        ELSE IF IsInstance(feature, "CategoricalInput")
        THEN PinColumns(d, idxs, to_onehot_encoding(feature, val))
        ELSE d

\* overlay of one (key, value) pair on a fixed-feature dictionary
OverlayPair(d, pair, f2i) ==
    LET feat == pair[1]
        val == pair[2]
        feature == get_feature(feat)
        idxs == f2i[feat]
    IN  IF IsInstance(feature, "CategoricalDescriptorInput")
           /\ input_preprocessing_specs[feat] = DESCRIPTOR
        THEN PinColumns(d, idxs, feature.values[IndexOf(feature.categories, val)])
        ELSE IF IsInstance(feature, "CategoricalInput")
        THEN PinColumns(d, idxs, to_onehot_encoding(feature, val))
        ELSE IF IsInstance(feature, "DiscreteInput")
        THEN DictSet(d, idxs[1], val)
        ELSE d

\* for pair in combo
OverlayCombo(d, combo, f2i) ==
    LET F[i \in 0..Len(combo)] ==
            IF i = 0 THEN d ELSE OverlayPair(F[i - 1], combo[i], f2i)
    IN  F[Len(combo)]

\* OverlayCombos that overlays every combination on the one shared dictionary
\* instead of a copy of fixed_basis, so that every entry of the list is the
\* dictionary left by the last combination
OverlayCombosWithoutCopy(fixed_basis, combos, f2i) ==
    LET F[i \in 0..Len(combos)] ==
            IF i = 0 THEN fixed_basis ELSE OverlayCombo(F[i - 1], combos[i], f2i)
    IN  IF Len(combos) = 1 THEN << fixed_basis >>
        ELSE [i \in 1..Len(combos) |-> F[Len(combos)]]

\* OverlayCombos that overlays the combinations on an empty dictionary instead
\* of a copy of fixed_basis
OverlayCombosOnEmptyDict(fixed_basis, combos, f2i) ==
    IF Len(combos) = 1
    THEN << fixed_basis >>
    ELSE LET F[i \in 0..Len(combos)] ==
                 IF i = 0 THEN <<>>
                 ELSE Append(F[i - 1], OverlayCombo(EmptyDict, combos[i], f2i))
         IN  F[Len(combos)]

\* the fixed feature list built from the combos on a copy of fixed_basis each
OverlayCombos(fixed_basis, combos, f2i) ==
    IF Len(combos) = 1
    THEN << fixed_basis >>
    ELSE LET F[i \in 0..Len(combos)] ==
                 IF i = 0 THEN <<>>
                 ELSE Append(F[i - 1], OverlayCombo(fixed_basis, combos[i], f2i))
         IN  F[Len(combos)]

get_categorical_combinations ==
    IF \A m \in {descriptor_method, discrete_method, categorical_method} : m = FREE
    THEN << EmptyDict >>
    ELSE OverlayCombos(get_fixed_features,
                       Inputs_get_categorical_combinations(EnumInclude, EnumExclude),
                       features2idx)

-----------------------------------------------------------------------------
(* N-choose-k combination enumerator *)

\* sorted(keys)
SortKeys(keys) ==
    LET n == Cardinality(keys)
        F[i \in 0..n] ==
            IF i = 0 THEN <<>>
            ELSE Append(F[i - 1],
                        CHOOSE k \in keys :
                            Cardinality({h \in keys : KeyRank(h) < KeyRank(k)}) = i - 1)
    IN  F[n]

DropDuplicates(s) ==
    LET F[i \in 0..Len(s)] ==
            IF i = 0 THEN <<>>
            ELSE IF s[i] \in Range(F[i - 1]) THEN F[i - 1] ELSE Append(F[i - 1], s[i])
    IN  F[Len(s)]

\* the combinations of one constraint: every subset of its features of a size
\* in min_count..max_count, and the empty one when none_also_valid
ConstraintCombinations(con) ==
    FlattenSeq([n \in 1..(con.max_count - con.min_count + 1) |->
                   Combinations(con.features, con.min_count + n - 1)])
    \o (IF con.none_also_valid THEN << <<>> >> ELSE <<>>)

\* a combination of used features fulfils every constraint
FulfilsConstraints(combo, cons) ==
    \A c \in 1..Len(cons) :
        LET count == Cardinality(Range(combo) \cap Range(cons[c].features))
        IN  \/ (count >= cons[c].min_count /\ count <= cons[c].max_count)
            \/ (count = 0 /\ cons[c].none_also_valid)

\* per combination of used features the constrained features it does not use
UnusedFeatures(used_features_list, features_in_cc) ==
    [i \in 1..Len(used_features_list) |->
        LET notused(k) == k \notin Range(used_features_list[i])
        IN  SelectSeq(features_in_cc, notused)]

\* the sorted, duplicate-free key lists of the products of the constraints' combinations
FormatCombinations(all) ==
    DropDuplicates([i \in 1..Len(all) |-> SortKeys(Range(FlattenSeq(all[i])))])

UsedAndUnused(final, features_in_cc) ==
    << final, UnusedFeatures(final, features_in_cc) >>

\* Domain.get_nchoosek_combinations(exhaustive=True): <<used features list, unused features list>>
Domain_get_nchoosek_combinations ==
    IF Len(domain.constraints) = 0
    THEN << Keys(Inputs_get({"ContinuousInput"}, {})), <<>> >>
    ELSE LET cons == domain.constraints
             ok(combo) == FulfilsConstraints(combo, cons)
         IN  UsedAndUnused(
                 SelectSeq(FormatCombinations(
                               Product([c \in 1..Len(cons) |-> ConstraintCombinations(cons[c])])),
                           ok),
                 SortKeys(UNION {Range(cons[c].features) : c \in 1..Len(cons)}))

\* NChooseKFixedValues that pins the used features instead of the unused ones
NChooseKFixedValuesPinUsed(uu, f2i) ==
    LET used_features == uu[1]
        unused_features == uu[2]
        n == IF Len(used_features) < Len(unused_features)
             THEN Len(used_features) ELSE Len(unused_features)
        fixed_values(used) ==
            LET G[k \in 0..Len(used)] ==
                    IF k = 0 THEN EmptyDict
                    ELSE DictSet(G[k - 1], f2i[used[k]][1], 0)
            IN  G[Len(used)]
        F[i \in 0..n] ==
            IF i = 0 THEN <<>> ELSE Append(F[i - 1], fixed_values(used_features[i]))
    IN  F[n]

\* NChooseKFixedValues that leaves out the combinations without unused feature
NChooseKFixedValuesSkipEmpty(uu, f2i) ==
    LET used_features == uu[1]
        unused_features == uu[2]
        n == IF Len(used_features) < Len(unused_features)
             THEN Len(used_features) ELSE Len(unused_features)
        fixed_values(unused) ==
            LET G[k \in 0..Len(unused)] ==
                    IF k = 0 THEN EmptyDict
                    ELSE DictSet(G[k - 1], f2i[unused[k]][1], 0)
            IN  G[Len(unused)]
        F[i \in 0..n] ==
            IF i = 0 THEN <<>>
            ELSE IF Len(unused_features[i]) = 0 THEN F[i - 1]
            ELSE Append(F[i - 1], fixed_values(unused_features[i]))
    IN  F[n]

\* the loop of get_nchoosek_combinations over uu = <<used_features, unused_features>>
NChooseKFixedValues(uu, f2i) ==
    LET used_features == uu[1]
        unused_features == uu[2]
        \* zip(used_features, unused_features)
        n == IF Len(used_features) < Len(unused_features)
             THEN Len(used_features) ELSE Len(unused_features)
        \* for f_key in unused: fixed_values[features2idx[f_key][0]] = 0.0
        fixed_values(unused) ==
            LET G[k \in 0..Len(unused)] ==
                    IF k = 0 THEN EmptyDict
                    ELSE DictSet(G[k - 1], f2i[unused[k]][1], 0)
            IN  G[Len(unused)]
        F[i \in 0..n] ==
            IF i = 0 THEN <<>> ELSE Append(F[i - 1], fixed_values(unused_features[i]))
    IN  F[n]

\* OrEmptyDict without the [{}] fallback for an empty list
OrEmptyDictNoFallback(fixed_values_list_cc) == fixed_values_list_cc

\* if len(fixed_values_list_cc) == 0: fixed_values_list_cc.append({})
OrEmptyDict(fixed_values_list_cc) ==
    IF Len(fixed_values_list_cc) = 0 THEN << EmptyDict >> ELSE fixed_values_list_cc

get_nchoosek_combinations ==
    OrEmptyDict(NChooseKFixedValues(Domain_get_nchoosek_combinations, features2idx))

-----------------------------------------------------------------------------
(* Fixed-value list composer *)

\* MergeEveryPair that pairs the two lists element by element (zip) instead of
\* combining every element of one with every element of the other
MergeElementwise(cc, nk) ==
    LET n == IF Len(cc) < Len(nk) THEN Len(cc) ELSE Len(nk)
        F[i \in 0..n] ==
            IF i = 0 THEN <<>> ELSE Append(F[i - 1], DictUpdate(cc[i], nk[i]))
    IN  F[n]

\* for ff1 in cc: for ff2 in nk: ff = ff1.copy(); ff.update(ff2); append(ff)
MergeEveryPair(cc, nk) ==
    LET inner(ff1) ==
            LET G[j \in 0..Len(nk)] ==
                    IF j = 0 THEN <<>> ELSE Append(G[j - 1], DictUpdate(ff1, nk[j]))
            IN  G[Len(nk)]
        F[i \in 0..Len(cc)] ==
            IF i = 0 THEN <<>> ELSE F[i - 1] \o inner(cc[i])
    IN  F[Len(cc)]

get_fixed_values_list ==
    MergeEveryPair(get_categorical_combinations, get_nchoosek_combinations)

-----------------------------------------------------------------------------
(* Sufficient experiments *)

\* HasSufficient with >= in place of > in the comparison with the threshold
HasSufficientOffByOne(exps) ==
    IF exps = None_ THEN FALSE
    ELSE LET degrees_of_freedom ==
                 Len(Inputs_get({"Input"}, {})) - Cardinality(DOMAIN get_fixed_features)
         IN  exps >= degrees_of_freedom + 1

\* has_sufficient_experiments evaluated on an experiments frame of the given size
HasSufficient(exps) ==
    IF exps = None_ THEN FALSE
    ELSE LET degrees_of_freedom ==
                 Len(Inputs_get({"Input"}, {})) - Cardinality(DOMAIN get_fixed_features)
         IN  exps > degrees_of_freedom + 1

has_sufficient_experiments == HasSufficient(experiments)

-----------------------------------------------------------------------------
(* Domains and strategy configurations the model ranges over *)

CatNames == <<"c1", "c2", "c3", "c4", "c5">>
Categories == SubSeq(CatNames, 1, MaxCats)

AllAllowed == [i \in 1..MaxCats |-> TRUE]
FirstForbidden == [i \in 1..MaxCats |-> i # 1]
OnlyFirstAllowed == [i \in 1..MaxCats |-> i = 1]
AllowedMasks == {AllAllowed, FirstForbidden, OnlyFirstAllowed}
LastForbidden == [i \in 1..MaxCats |-> i # MaxCats]
\* no category allowed: a mask the constructor of the feature rejects
NoneAllowed == [i \in 1..MaxCats |-> FALSE]
\* one entry less than there are categories
ShortAllowed == [i \in 1..(MaxCats - 1) |-> TRUE]
\* the last category repeats the one before it
DuplicateCategories ==
    [i \in 1..MaxCats |-> CatNames[IF i = MaxCats THEN i - 1 ELSE i]]

\* two descriptors per category; the first one is constant over all categories but the first
DescriptorValues == [i \in 1..MaxCats |-> <<IF i = 1 THEN 1 ELSE 3, 2 * i>>]
\* two descriptors per category that vary over the categories but are the same
\* for all categories but the first
RepeatedDescriptorValues ==
    [i \in 1..MaxCats |-> <<IF i = 1 THEN 1 ELSE 3, IF i = 1 THEN 2 ELSE 4>>]
DiscreteValues == [i \in 1..MaxDiscrete |-> i]

FeatA == ContinuousInput("a", 0, 1)
FeatB == ContinuousInput("b", 0, 1)
FeatBFixed == ContinuousInput("b", 3, 3)
FeatC == ContinuousInput("c", 0, 1)
FeatV == DiscreteInput("v", DiscreteValues)
\* a categorical input with three categories, all allowed
FeatD3 == CategoricalInput("d", <<"c1", "c2", "c3">>, <<TRUE, TRUE, TRUE>>)

CategoricalParts ==
    { <<>> } \cup { <<CategoricalInput("d", Categories, m)>> : m \in AllowedMasks }

DescriptorParts ==
    { <<>> } \cup
    { <<CategoricalDescriptorInput("e", Categories, m, DescriptorValues)>> : m \in AllowedMasks }
    \cup { <<CategoricalDescriptorInput("e", Categories, AllAllowed, RepeatedDescriptorValues)>> }

DiscreteParts == { <<>>, <<FeatV>> }

FreeOnly(fs) == LET free(f) == ~is_fixed(f) IN SelectSeq(fs, free)

\* a single n-choose-k constraint over a group of continuous feature keys
NChooseKOver(keys) ==
    { NChooseKConstraint(keys, mn, mx, nav) :
        mn \in 0..Len(keys), mx \in 1..Len(keys), nav \in BOOLEAN }

\* no constraint, or one n-choose-k constraint over all continuous features or
\* over the continuous features that are not fixed
ConstraintLists(cont) ==
    { <<c>> : c \in { k \in NChooseKOver(Keys(cont)) \cup NChooseKOver(Keys(FreeOnly(cont))) :
                        k.min_count <= k.max_count /\ Len(k.features) >= 2 } }

\* input features in declaration order: continuous, categorical, descriptor, discrete
Domains(conts, cats, descs, discs, constrained) ==
    UNION { { [inputs |-> cont \o cat \o desc \o disc, constraints |-> cons] :
                cat \in cats, desc \in descs, disc \in discs,
                cons \in (IF constrained THEN ConstraintLists(cont) ELSE { <<>> }) } :
            cont \in conts }

\* all feature classes and allowed masks, no constraint
RichDomains ==
    Domains({ <<FeatA>>, <<FeatA, FeatBFixed>> },
            CategoricalParts, DescriptorParts, DiscreteParts, FALSE)

\* one n-choose-k constraint, with and without a categorical input
ConstrainedDomains ==
    Domains({ <<FeatA, FeatB, FeatC>>, <<FeatA, FeatBFixed, FeatC>> },
            { <<>>, <<CategoricalInput("d", Categories, AllAllowed)>>,
              <<CategoricalInput("d", Categories, OnlyFirstAllowed)>> },
            { <<>> }, { <<>> }, TRUE)

AllDomains == RichDomains \cup ConstrainedDomains

\* the arguments a CategoricalInput is constructed with: every mask over the
\* categories, a mask that is too short, and categories with a duplicate. Each
\* pair fails at most one check of the constructor
CategoricalInputArgs ==
    { <<Categories, allowed>> : allowed \in [1..MaxCats -> BOOLEAN] }
        \cup { <<Categories, ShortAllowed>>, <<DuplicateCategories, LastForbidden>> }

\* the domain every public function of the strategy is run on: a and b
\* continuous, d categorical with every category allowed
ApiDomains ==
    { [inputs |-> <<FeatA, FeatB, FeatD3>>, constraints |-> <<>>] }

\* the domains the sequences of tell and ask calls are run on
OrchestratorDomains ==
    LET d_all == CategoricalInput("d", Categories, AllAllowed)
        d_fixed == CategoricalInput("d", Categories, OnlyFirstAllowed)
    IN  { [inputs |-> <<FeatA, FeatB>>, constraints |-> <<>>],
          [inputs |-> <<FeatA, FeatB, FeatD3>>, constraints |-> <<>>],
          [inputs |-> <<FeatA, d_fixed>>, constraints |-> <<>>],
          [inputs |-> <<FeatA, d_all, FeatV>>, constraints |-> <<>>],
          [inputs |-> <<FeatA, FeatB, FeatC>>,
           constraints |-> <<NChooseKConstraint(<<"a", "b", "c">>, 1, 2, FALSE)>>],
          [inputs |-> <<FeatA, FeatBFixed, FeatC>>,
           constraints |-> <<NChooseKConstraint(<<"a", "c">>, 1, 1, TRUE)>>] }

\* encodings a surrogate specification can assign to the categorical inputs
SpecsOf(dom) ==
    LET keys == {f.key : f \in {g \in Range(dom.inputs) : IsInstance(g, "CategoricalInput")}}
        desc == {f.key : f \in {g \in Range(dom.inputs) : IsInstance(g, "CategoricalDescriptorInput")}}
    IN  { sp \in [keys -> {ONE_HOT, DESCRIPTOR}] :
            \A k \in keys : sp[k] = DESCRIPTOR => k \in desc }

\* BotorchStrategy data model, _generate_surrogate_specs: the class of the
\* surrogate generated for an output that has no surrogate specification, a
\* MixedSingleTaskGPSurrogate when the domain has an input whose class is exactly
\* CategoricalInput
generate_surrogate_specs(dom) ==
    IF \E f \in Range(dom.inputs) : f.type = "CategoricalInput"
    THEN "MixedSingleTaskGPSurrogate"
    ELSE "SingleTaskGPSurrogate"

\* the classes of the surrogates of a strategy: SingleTaskGPSurrogate when the
\* surrogate specifications are given, the generated class when they are not
SurrogatesOf(dom) == {"SingleTaskGPSurrogate", generate_surrogate_specs(dom)}

\* BotorchStrategy data model, update_surrogate_specs_for_domain; surrogate is the
\* class of the surrogates. categorical_method = FREE is rejected with a
\* MixedSingleTaskGPSurrogate, and a one-hot encoded CategoricalDescriptorInput
\* requires categorical_method = descriptor_method
ValidStrategy(dom, surrogate, sp, cat_m, desc_m) ==
    /\ ~(cat_m = FREE /\ surrogate = "MixedSingleTaskGPSurrogate")
    /\ \A f \in Range(dom.inputs) :
           (IsInstance(f, "CategoricalDescriptorInput") /\ sp[f.key] = ONE_HOT) => cat_m = desc_m

-----------------------------------------------------------------------------
(* Data model of the strategy: the sample counts *)

\* a & b on Python integers (two's complement of unbounded width)
RECURSIVE BitAnd(_, _)
BitAnd(a, b) ==
    IF a = 0 \/ b = 0 THEN 0
    ELSE IF a = -1 THEN b
    ELSE IF b = -1 THEN a
    ELSE (a % 2) * (b % 2) + 2 * BitAnd(a \div 2, b \div 2)

\* is_power_of_two without the test n != 0
is_power_of_two_without_zero_test(n) == BitAnd(n, n - 1) = 0

\* (n != 0) and (n & (n - 1) == 0)
is_power_of_two(n) == (n # 0) /\ (BitAnd(n, n - 1) = 0)

\* the error of a PositiveInt field with a validator, "none" when the value is
\* accepted; v is <<>> when the argument is not given and the default is used,
\* and <<n>> for the integer n.
\* The type is validated before the validator is called
SampleCountError(v, message) ==
    IF v = <<>> THEN "none"
    ELSE IF v[1] <= 0 THEN "ensure this value is greater than 0"
    ELSE IF is_power_of_two(v[1]) = FALSE THEN message
    ELSE "none"

validate_num_sobol_samples(v) ==
    SampleCountError(v, "number sobol samples have to be of the power of 2 to increase performance")

validate_num_raw_samples(v) ==
    SampleCountError(v, "number raw samples have to be of the power of 2 to increase performance")

\* the errors of the fields in their declaration order
SampleCountErrors(num_sobol_samples, num_raw_samples) ==
    LET keep(e) == e # "none"
    IN  SelectSeq(<< validate_num_sobol_samples(num_sobol_samples),
                     validate_num_raw_samples(num_raw_samples) >>, keep)

-----------------------------------------------------------------------------

(* State after construction *)

NoCall ==
    [op |-> "init", args |-> <<>>, raised |-> "none", fit_called |-> FALSE,
     init_acqf_called |-> FALSE, optimizer |-> "none", fixed_features |-> EmptyDict, fixed_features_list |-> <<>>,
     features2idx |-> EmptyDict, errors |-> <<>>]

InitOver(doms) ==
    /\ domain \in doms
    /\ input_preprocessing_specs \in SpecsOf(domain)
    /\ categorical_method \in CategoricalMethodEnum
    /\ descriptor_method \in CategoricalMethodEnum
    /\ discrete_method \in CategoricalMethodEnum
    /\ \E surrogate \in SurrogatesOf(domain) :
           ValidStrategy(domain, surrogate, input_preprocessing_specs,
                         categorical_method, descriptor_method)
    /\ experiments = None_
    /\ candidates = 0
    /\ is_fitted = FALSE
    /\ model = "None"
    /\ acqf = "None"
    /\ last = NoCall

Init == InitOver(ApiDomains)

TellAskInit == InitOver(OrchestratorDomains)

EnumInit == InitOver(AllDomains)

-----------------------------------------------------------------------------
(* tell and the functions it is made of *)

\* the call raises e and leaves the strategy as it was
Raise(call, e) ==
    /\ last' = [call EXCEPT !.raised = e]
    /\ UNCHANGED <<config, experiments, candidates, is_fitted, model, acqf>>

\* what fit can raise once it has data: domain.validate_experiments(strict=True), _fit
FitErrors == {"validate_experiments(strict=True)", "_fit"}

\* the number of rows held after set_experiments (replace) or add_experiments
Recorded(rows, replace) ==
    IF replace \/ experiments = None_ THEN rows ELSE experiments + rows

\* Tell that marks the strategy as not fitted when the experiments are replaced
\* and no fit follows
TellUnfitsOnReplace(rows, replace, retrain) ==
    LET args == [rows |-> rows, replace |-> replace, retrain |-> retrain]
        call == [NoCall EXCEPT !.op = "tell", !.args = args]
        accumulated == Recorded(rows, replace)
    IN  IF rows = 0
        THEN /\ last' = call
             /\ UNCHANGED <<config, experiments, candidates, is_fitted, model, acqf>>
        ELSE /\ accumulated <= MaxExperiments
             /\ \/ Raise(call, "validate_experiments")
                \/ /\ experiments' = accumulated
                   /\ UNCHANGED <<config, candidates>>
                   /\ IF retrain /\ HasSufficient(accumulated)
                      THEN \/ \E e \in FitErrors :
                                 /\ last' = [call EXCEPT !.fit_called = TRUE, !.raised = e]
                                 /\ UNCHANGED <<is_fitted, model, acqf>>
                           \/ /\ model' = "model"
                              /\ is_fitted' = TRUE
                              /\ \/ /\ acqf' \in {"acqf", acqf}
                                    /\ last' = [call EXCEPT !.fit_called = TRUE,
                                                            !.init_acqf_called = TRUE]
                                 \/ /\ acqf' = acqf
                                    /\ last' = [call EXCEPT !.fit_called = TRUE,
                                                            !.init_acqf_called = TRUE,
                                                            !.raised = "_init_acqf"]
                      ELSE /\ last' = call
                           /\ is_fitted' = (is_fitted /\ ~replace)
                           /\ UNCHANGED <<model, acqf>>

\* PredictiveStrategy.tell(experiments, replace, retrain); rows = len(experiments).
\* An empty batch returns at once. A non-empty batch is rejected by
\* validate_experiments or stored. With retrain and sufficient experiments
\* fit() is called, which raises or sets model and is_fitted, and after it _tell() ->
\* init_acqf() -> _init_acqf(), the hook of the subclass, which sets the
\* acquisition function, leaves it as it is (DummyStrategy) or raises
Tell(rows, replace, retrain) ==
    LET args == [rows |-> rows, replace |-> replace, retrain |-> retrain]
        call == [NoCall EXCEPT !.op = "tell", !.args = args]
        \* set_experiments / add_experiments
        accumulated == Recorded(rows, replace)
    IN  IF rows = 0
        THEN /\ last' = call
             /\ UNCHANGED <<config, experiments, candidates, is_fitted, model, acqf>>
        ELSE \* the model follows the strategy up to MaxExperiments rows
             /\ accumulated <= MaxExperiments
             /\ \/ Raise(call, "validate_experiments")
                \/ /\ experiments' = accumulated
                   /\ UNCHANGED <<config, candidates>>
                   \* the loop over the fixed non-task features raises only for a
                   \* TaskInput, which the loop has filtered out
                   /\ IF retrain /\ HasSufficient(accumulated)
                      THEN \/ \E e \in FitErrors :
                                 /\ last' = [call EXCEPT !.fit_called = TRUE, !.raised = e]
                                 /\ UNCHANGED <<is_fitted, model, acqf>>
                           \/ /\ model' = "model"
                              /\ is_fitted' = TRUE
                              /\ \/ /\ acqf' \in {"acqf", acqf}
                                    /\ last' = [call EXCEPT !.fit_called = TRUE,
                                                            !.init_acqf_called = TRUE]
                                 \/ /\ acqf' = acqf
                                    /\ last' = [call EXCEPT !.fit_called = TRUE,
                                                            !.init_acqf_called = TRUE,
                                                            !.raised = "_init_acqf"]
                      ELSE /\ last' = call
                           /\ UNCHANGED <<is_fitted, model, acqf>>

\* Strategy.tell(experiments, replace), the tell of the base class, called as
\* Strategy.tell(strategy, experiments); rows = len(experiments). An empty batch
\* returns at once. A non-empty batch is rejected by validate_experiments or
\* stored, and then _tell() -> init_acqf() -> _init_acqf() sets the acquisition
\* function, leaves it as it is or raises. There is no check of
\* has_sufficient_experiments and no fit
StrategyTell(rows, replace) ==
    LET args == [rows |-> rows, replace |-> replace]
        call == [NoCall EXCEPT !.op = "Strategy.tell", !.args = args]
        \* set_experiments / add_experiments
        accumulated == Recorded(rows, replace)
    IN  IF rows = 0
        THEN /\ last' = call
             /\ UNCHANGED <<config, experiments, candidates, is_fitted, model, acqf>>
        ELSE /\ accumulated <= MaxExperiments
             /\ \/ Raise(call, "validate_experiments")
                \/ /\ experiments' = accumulated
                   /\ UNCHANGED <<config, candidates, is_fitted, model>>
                   /\ \/ /\ acqf' \in {"acqf", acqf}
                         /\ last' = [call EXCEPT !.init_acqf_called = TRUE]
                      \/ /\ acqf' = acqf
                         /\ last' = [call EXCEPT !.init_acqf_called = TRUE,
                                                 !.raised = "_init_acqf"]

\* Strategy.set_experiments(experiments)
SetExperiments(rows) ==
    LET call == [NoCall EXCEPT !.op = "set_experiments", !.args = [rows |-> rows]]
    IN  \/ Raise(call, "validate_experiments")
        \/ /\ experiments' = rows
           /\ last' = call
           /\ UNCHANGED <<config, candidates, is_fitted, model, acqf>>

\* Strategy.add_experiments(experiments)
AddExperiments(rows) ==
    LET call == [NoCall EXCEPT !.op = "add_experiments", !.args = [rows |-> rows]]
    IN  /\ Recorded(rows, FALSE) <= MaxExperiments
        /\ \/ Raise(call, "validate_experiments")
           \/ /\ experiments' = Recorded(rows, FALSE)
              /\ last' = call
              /\ UNCHANGED <<config, candidates, is_fitted, model, acqf>>

\* PredictiveStrategy.fit() -> BotorchStrategy._fit(): _fit assigns self.model as
\* its last statement, and fit() sets is_fitted after _fit has returned
Fit ==
    LET call == [NoCall EXCEPT !.op = "fit", !.fit_called = TRUE]
    IN  IF experiments = None_ \/ experiments = 0
        THEN Raise(call, "AssertionError")
        ELSE \/ \E e \in FitErrors : Raise(call, e)
             \/ /\ model' = "model"
                /\ is_fitted' = TRUE
                /\ last' = call
                /\ UNCHANGED <<config, experiments, candidates, acqf>>

\* BotorchStrategy.init_acqf() -> _init_acqf()
InitAcqf ==
    LET call == [NoCall EXCEPT !.op = "init_acqf", !.init_acqf_called = TRUE]
    IN  \/ Raise(call, "_init_acqf")
        \/ /\ acqf' \in {"acqf", acqf}
           /\ last' = call
           /\ UNCHANGED <<config, experiments, candidates, is_fitted, model>>

\* Strategy.set_candidates(candidates); count = len(candidates)
SetCandidates(count) ==
    LET call == [NoCall EXCEPT !.op = "set_candidates", !.args = [count |-> count]]
    IN  \/ Raise(call, "validate_candidates")
        \/ /\ candidates' = count
           /\ last' = call
           /\ UNCHANGED <<config, experiments, is_fitted, model, acqf>>

\* Strategy.add_candidates(candidates); count = len(candidates)
AddCandidates(count) ==
    LET call == [NoCall EXCEPT !.op = "add_candidates", !.args = [count |-> count]]
    IN  /\ candidates + count <= MaxPending
        /\ \/ Raise(call, "validate_candidates")
           \/ /\ candidates' = candidates + count
              /\ last' = call
              /\ UNCHANGED <<config, experiments, is_fitted, model, acqf>>

-----------------------------------------------------------------------------
(* ask *)

InsufficientExperiments == "ValueError: Not enough experiments available to execute the strategy."
CandidateCountTooSmall == "ValueError: Candidate_count has to be at least 1"
WrongCandidateCount == "ValueError: expected candidate_count candidates"
ValidateCandidates == "Strategy.ask: validate_candidates"
ValidateCandidatePool == "Strategy.ask: validate_candidates(candidate_pool)"
AddCandidatesValidation == "Strategy.add_candidates: validate_candidates"

has_nchoosek == Len(domain.constraints) > 0

\* AskBranch without the test num_categorical_combinations == 1
AskBranchWithoutSingleCombination ==
    LET num_categorical_features ==
            Len(Inputs_get({"CategoricalInput", "DiscreteInput"}, {}))
        methods == {categorical_method, descriptor_method, discrete_method}
    IN  IF /\ \/ num_categorical_features = 0
              \/ \A enc \in methods : enc = FREE
           /\ ~has_nchoosek
        THEN [optimizer |-> "optimize_acqf",
              fixed_features |-> get_fixed_features, fixed_features_list |-> <<>>]
        ELSE IF EXHAUSTIVE \in methods /\ ~has_nchoosek
        THEN [optimizer |-> "optimize_acqf_mixed",
              fixed_features |-> EmptyDict,
              fixed_features_list |-> get_categorical_combinations]
        ELSE IF has_nchoosek
        THEN [optimizer |-> "optimize_acqf_mixed",
              fixed_features |-> EmptyDict,
              fixed_features_list |-> get_fixed_values_list]
        ELSE [optimizer |-> "IOError",
              fixed_features |-> EmptyDict, fixed_features_list |-> <<>>]

\* AskBranch without the branch for n-choose-k constraints
AskBranchWithoutNChooseK ==
    LET num_categorical_features ==
            Len(Inputs_get({"CategoricalInput", "DiscreteInput"}, {}))
        num_categorical_combinations ==
            Len(Inputs_get_categorical_combinations({"Input"}, {}))
        methods == {categorical_method, descriptor_method, discrete_method}
    IN  IF /\ \/ num_categorical_features = 0
              \/ num_categorical_combinations = 1
              \/ \A enc \in methods : enc = FREE
           /\ ~has_nchoosek
        THEN [optimizer |-> "optimize_acqf",
              fixed_features |-> get_fixed_features, fixed_features_list |-> <<>>]
        ELSE IF EXHAUSTIVE \in methods /\ ~has_nchoosek
        THEN [optimizer |-> "optimize_acqf_mixed",
              fixed_features |-> EmptyDict,
              fixed_features_list |-> get_categorical_combinations]
        ELSE [optimizer |-> "IOError",
              fixed_features |-> EmptyDict, fixed_features_list |-> <<>>]

\* the branch of BotorchStrategy._ask: the optimizer called and its fixed features
AskBranch ==
    LET num_categorical_features ==
            Len(Inputs_get({"CategoricalInput", "DiscreteInput"}, {}))
        num_categorical_combinations ==
            Len(Inputs_get_categorical_combinations({"Input"}, {}))
        methods == {categorical_method, descriptor_method, discrete_method}
    IN  IF /\ \/ num_categorical_features = 0
              \/ num_categorical_combinations = 1
              \/ \A enc \in methods : enc = FREE
           /\ ~has_nchoosek
        THEN [optimizer |-> "optimize_acqf",
              fixed_features |-> get_fixed_features, fixed_features_list |-> <<>>]
        ELSE IF EXHAUSTIVE \in methods /\ ~has_nchoosek
        THEN [optimizer |-> "optimize_acqf_mixed",
              fixed_features |-> EmptyDict,
              fixed_features_list |-> get_categorical_combinations]
        ELSE IF has_nchoosek
        THEN [optimizer |-> "optimize_acqf_mixed",
              fixed_features |-> EmptyDict,
              fixed_features_list |-> get_fixed_values_list]
        ELSE [optimizer |-> "IOError",
              fixed_features |-> EmptyDict, fixed_features_list |-> <<>>]

\* AskPrecondition without the has_sufficient_experiments check of Strategy.ask
AskPreconditionNoExperimentsCheck(candidate_count) ==
    IF candidate_count # <<>> /\ candidate_count[1] < 1 THEN CandidateCountTooSmall
    ELSE IF candidate_count = <<>> THEN "TypeError"
    ELSE IF acqf = "None" THEN "AssertionError"
    ELSE "none"

\* AskPrecondition without the assertion that acqf is not None
AskPreconditionNoAcqfCheck(candidate_count) ==
    IF candidate_count # <<>> /\ candidate_count[1] < 1 THEN CandidateCountTooSmall
    ELSE IF ~has_sufficient_experiments THEN InsufficientExperiments
    ELSE IF candidate_count = <<>> THEN "TypeError"
    ELSE "none"

\* the error raised by ask before any optimizer is called, "none" when there is none:
\* Strategy.ask checks candidate_count and has_sufficient_experiments, then
\* BotorchStrategy._ask asserts candidate_count > 0 and acqf is not None
AskPrecondition(candidate_count) ==
    IF candidate_count # <<>> /\ candidate_count[1] < 1 THEN CandidateCountTooSmall
    ELSE IF ~has_sufficient_experiments THEN InsufficientExperiments
    ELSE IF candidate_count = <<>> THEN "TypeError"
    ELSE IF acqf = "None" THEN "AssertionError"
    ELSE "none"

\* the optimizer of the branch and the fixed features handed to it
WithBranch(call, branch) ==
    [call EXCEPT !.optimizer = branch.optimizer,
                 !.fixed_features = branch.fixed_features,
                 !.fixed_features_list = branch.fixed_features_list]

\* ReturnCandidates in which add_candidates replaces the pending candidates by
\* the new ones instead of appending them
ReturnCandidatesOverwrites(opt, candidate_count, add_pending) ==
    \/ /\ add_pending
       /\ \/ Raise(opt, AddCandidatesValidation)
          \/ /\ candidates' = candidate_count
             /\ last' = opt
             /\ UNCHANGED <<config, experiments, is_fitted, model, acqf>>
    \/ /\ ~add_pending
       /\ last' = opt
       /\ UNCHANGED <<config, experiments, candidates, is_fitted, model, acqf>>

\* the end of Strategy.ask once the candidates have passed its checks: with
\* add_pending add_candidates validates them and then stores them, as the
\* pending candidates when there were none and appended to them otherwise
ReturnCandidates(opt, candidate_count, add_pending) ==
    \/ /\ add_pending
       /\ \/ Raise(opt, AddCandidatesValidation)
          \/ /\ candidates' = candidates + candidate_count
             /\ last' = opt
             /\ UNCHANGED <<config, experiments, is_fitted, model, acqf>>
    \/ /\ ~add_pending
       /\ last' = opt
       /\ UNCHANGED <<config, experiments, candidates, is_fitted, model, acqf>>

\* The optimizer is called and raises or returns. _ask then reads
\* self.model.posterior for the predictions of the candidates, an AttributeError
\* when no fit has set the model, and builds the frame of the candidates. Back
\* in Strategy.ask domain.validate_candidates(only_inputs=True) rejects the
\* candidates, len(candidates) != candidate_count, or the candidates are
\* returned, after add_candidates with add_pending
Optimize(opt, candidate_count, add_pending) ==
    \/ Raise(opt, "optimizer")
    \/ IF model = "None"
       THEN Raise(opt, "AttributeError")
       ELSE \/ \E e \in {ValidateCandidates, WrongCandidateCount} :
                  Raise(opt, e)
            \/ ReturnCandidates(opt, candidate_count, add_pending)

\* the checks before the optimizer, the branch, then the optimizer
AskOutcome(call, pre, branch, candidate_count, add_pending) ==
    IF pre # "none" THEN Raise(call, pre)
    ELSE IF branch.optimizer = "IOError" THEN Raise(call, "IOError")
    ELSE Optimize(WithBranch(call, branch), candidate_count[1], add_pending)

\* the error raised by ask with a candidate pool of pool_size rows that has
\* passed validate_candidates, before the acquisition function is evaluated,
\* "none" when there is none: the checks of Strategy.ask, the assertion
\* candidate_count <= len(candidate_pool), which is skipped for candidate_count
\* None, then in calc_acquisition self.acqf.forward on acqf None
PoolPrecondition(candidate_count, pool_size) ==
    IF candidate_count # <<>> /\ candidate_count[1] < 1 THEN CandidateCountTooSmall
    ELSE IF ~has_sufficient_experiments THEN InsufficientExperiments
    ELSE IF candidate_count # <<>> /\ candidate_count[1] > pool_size THEN "AssertionError"
    ELSE IF acqf = "None" THEN "AttributeError"
    ELSE "none"

\* ask with a candidate pool: the pool is validated after the two checks of
\* Strategy.ask. _choose_from_pool first evaluates the acquisition function on
\* the pool (calc_acquisition), which can raise, and then computes
\* -1 * candidate_count, a TypeError for candidate_count None. The chosen rows
\* are rows of the validated pool, and their number is candidate_count
AskFromPool(call, pre, candidate_count, add_pending) ==
    IF pre \in {CandidateCountTooSmall, InsufficientExperiments} THEN Raise(call, pre)
    ELSE \/ Raise(call, ValidateCandidatePool)
         \/ IF pre # "none" THEN Raise(call, pre)
            ELSE \/ Raise(call, "calc_acquisition")
                 \/ IF candidate_count = <<>>
                    THEN Raise(call, "TypeError")
                    ELSE ReturnCandidates(call, candidate_count[1], add_pending)

\* Strategy.ask(candidate_count, add_pending, candidate_pool) -> BotorchStrategy._ask
\* or _choose_from_pool; candidate_count is <<>> for None and <<n>> for the
\* integer n, candidate_pool is <<>> for None and <<p>> for a pool of p rows
Ask(candidate_count, add_pending, candidate_pool) ==
    LET call == [NoCall EXCEPT !.op = "ask",
                               !.args = [candidate_count |-> candidate_count,
                                         add_pending |-> add_pending,
                                         candidate_pool |-> candidate_pool]]
    IN  \* the model follows the calls that can take the pending candidates up
        \* to MaxPending
        /\ (add_pending /\ candidate_count # <<>>)
              => candidates + candidate_count[1] <= MaxPending
        /\ IF candidate_pool = <<>>
           THEN AskOutcome(call, AskPrecondition(candidate_count), AskBranch,
                           candidate_count, add_pending)
           ELSE AskFromPool(call, PoolPrecondition(candidate_count, candidate_pool[1]),
                            candidate_count, add_pending)

\* PredictiveStrategy.ask(candidate_count, add_pending, raise_validation_error),
\* the ask of every BotorchStrategy object: it passes raise_validation_error to
\* Strategy.ask, which has no such parameter, so the call raises TypeError
\* before Strategy.ask runs
PredictiveAsk(candidate_count, add_pending, raise_validation_error) ==
    Raise([NoCall EXCEPT !.op = "PredictiveStrategy.ask",
                         !.args = [candidate_count |-> candidate_count,
                                   add_pending |-> add_pending,
                                   raise_validation_error |-> raise_validation_error]],
          "TypeError")

-----------------------------------------------------------------------------
(* Direct calls of the resolver, the enumerators and the composer *)

CallFeatures2idx ==
    /\ last' = [NoCall EXCEPT !.op = "_features2idx", !.features2idx = features2idx]
    /\ UNCHANGED <<config, experiments, candidates, is_fitted, model, acqf>>

CallGetFixedFeatures ==
    /\ last' = [NoCall EXCEPT !.op = "get_fixed_features",
                              !.fixed_features = get_fixed_features]
    /\ UNCHANGED <<config, experiments, candidates, is_fitted, model, acqf>>

CallGetCategoricalCombinations ==
    /\ last' = [NoCall EXCEPT !.op = "get_categorical_combinations",
                              !.fixed_features_list = get_categorical_combinations]
    /\ UNCHANGED <<config, experiments, candidates, is_fitted, model, acqf>>

CallGetNChooseKCombinations ==
    /\ last' = [NoCall EXCEPT !.op = "get_nchoosek_combinations",
                              !.fixed_features_list = get_nchoosek_combinations]
    /\ UNCHANGED <<config, experiments, candidates, is_fitted, model, acqf>>

CallGetFixedValuesList ==
    /\ last' = [NoCall EXCEPT !.op = "get_fixed_values_list",
                              !.fixed_features_list = get_fixed_values_list]
    /\ UNCHANGED <<config, experiments, candidates, is_fitted, model, acqf>>

-----------------------------------------------------------------------------
(* Construction of the data model *)

\* BotorchStrategy(domain=..., num_sobol_samples=..., num_raw_samples=...): the
\* errors of all fields are raised together as one ValidationError, a ValueError
Create(num_sobol_samples, num_raw_samples) ==
    \* an object is constructed once
    /\ last = NoCall
    /\ last' = [NoCall EXCEPT
                  !.op = "create",
                  !.args = [num_sobol_samples |-> num_sobol_samples,
                            num_raw_samples |-> num_raw_samples],
                  !.errors = SampleCountErrors(num_sobol_samples, num_raw_samples),
                  !.raised = IF SampleCountErrors(num_sobol_samples, num_raw_samples) = <<>>
                             THEN "none" ELSE "ValueError"]
    /\ UNCHANGED <<config, experiments, candidates, is_fitted, model, acqf>>

-----------------------------------------------------------------------------
(* Construction of a categorical input *)

\* a constructor of CategoricalInput that accepts a mask without an allowed
\* category
validate_CategoricalInputAcceptsNoneAllowed(categories, allowed) ==
    IF Cardinality(Range(categories)) # Len(categories)
    THEN "categories must be unique"
    ELSE IF Len(allowed) # Len(categories)
    THEN "allowed must have same length as categories"
    ELSE "none"

\* the validators of CategoricalInput: the message of the ValueError the
\* constructor raises, "none" when the feature is constructed. The categories
\* are unique, the allowed mask has one entry per category, and at least one
\* category is allowed
validate_CategoricalInput(categories, allowed) ==
    IF Cardinality(Range(categories)) # Len(categories)
    THEN "categories must be unique"
    ELSE IF Len(allowed) # Len(categories)
    THEN "allowed must have same length as categories"
    ELSE IF \A i \in DOMAIN allowed : ~allowed[i]
    THEN "no category is allowed"
    ELSE "none"

\* CategoricalInput(key="d", categories=..., allowed=...), then a Domain over
\* the other inputs of the current domain and d, and a strategy over it with
\* the methods of the current one. When the constructor of the feature raises
\* there is no feature, hence no domain and no strategy, and the strategy at
\* hand is the one there was
CreateWithCategoricalInput(categories, allowed) ==
    LET call == [NoCall EXCEPT !.op = "CategoricalInput",
                               !.args = [categories |-> categories,
                                         allowed |-> allowed]]
        error == validate_CategoricalInput(categories, allowed)
        other(f) == f.key # "d"
        dom == [domain EXCEPT
                  !.inputs = SelectSeq(domain.inputs, other)
                                 \o <<CategoricalInput("d", categories, allowed)>>]
    IN  IF error # "none"
        THEN /\ last' = [call EXCEPT !.raised = "ValueError", !.errors = <<error>>]
             /\ UNCHANGED <<config, experiments, candidates, is_fitted, model, acqf>>
        ELSE /\ domain' = dom
             /\ input_preprocessing_specs' \in
                    { sp \in SpecsOf(dom) :
                        \A k \in DOMAIN sp \cap DOMAIN input_preprocessing_specs :
                            sp[k] = input_preprocessing_specs[k] }
             /\ \E surrogate \in SurrogatesOf(dom) :
                    ValidStrategy(dom, surrogate, input_preprocessing_specs',
                                  categorical_method, descriptor_method)
             /\ experiments' = None_
             /\ candidates' = 0
             /\ is_fitted' = FALSE
             /\ model' = "None"
             /\ acqf' = "None"
             /\ last' = call
             /\ UNCHANGED <<categorical_method, descriptor_method, discrete_method>>

-----------------------------------------------------------------------------

(* Specifications *)

TellStep ==
    \E rows \in 0..MaxRows, replace \in BOOLEAN, retrain \in BOOLEAN :
        Tell(rows, replace, retrain)

\* None or an element of S, for an Optional argument
Optional(S) == { <<>> } \cup { <<x>> : x \in S }

AskStep ==
    \E candidate_count \in Optional(0..MaxCandidateCount), add_pending \in BOOLEAN,
       candidate_pool \in Optional(0..MaxPool) :
        Ask(candidate_count, add_pending, candidate_pool)

PredictiveAskStep ==
    \E candidate_count \in Optional(1..MaxCandidateCount), add_pending \in BOOLEAN,
       raise_validation_error \in BOOLEAN :
        PredictiveAsk(candidate_count, add_pending, raise_validation_error)

StrategyTellStep ==
    \E rows \in 0..MaxRows, replace \in BOOLEAN : StrategyTell(rows, replace)

SetExperimentsStep == \E rows \in 0..MaxRows : SetExperiments(rows)

AddExperimentsStep == \E rows \in 0..MaxRows : AddExperiments(rows)

SetCandidatesStep == \E count \in 0..MaxCandidateCount : SetCandidates(count)

AddCandidatesStep == \E count \in 0..MaxCandidateCount : AddCandidates(count)

\* every public function of the strategy that changes its state
Next ==
    \/ TellStep
    \/ AskStep
    \/ PredictiveAskStep
    \/ StrategyTellStep
    \/ SetExperimentsStep
    \/ AddExperimentsStep
    \/ Fit
    \/ InitAcqf
    \/ SetCandidatesStep
    \/ AddCandidatesStep

Spec == Init /\ [][Next]_vars

\* the sequences of tell and ask calls
TellAskNext == TellStep \/ AskStep \/ PredictiveAskStep

TellAskSpec == TellAskInit /\ [][TellAskNext]_vars

\* the layout, the resolver, the enumerators and the composer as pure functions of the configuration
EnumNext ==
    \/ CallFeatures2idx
    \/ CallGetFixedFeatures
    \/ CallGetCategoricalCombinations
    \/ CallGetNChooseKCombinations
    \/ CallGetFixedValuesList

EnumSpec == EnumInit /\ [][EnumNext]_vars

\* a strategy is constructed over the inputs of the domain with the categorical
\* input d declared anew
CreateWithCategoricalInputStep ==
    \E args \in CategoricalInputArgs : CreateWithCategoricalInput(args[1], args[2])

ConstructNext == EnumNext \/ CreateWithCategoricalInputStep

\* the construction of the categorical input, then the resolver, the
\* enumerators and the composer on the strategies that can be constructed
ConstructSpec == EnumInit /\ [][ConstructNext]_vars

\* construction of the data model with given sample counts
CreateStep ==
    \E num_sobol_samples \in Optional(-1..MaxSamples),
       num_raw_samples \in Optional(-1..MaxSamples) :
        Create(num_sobol_samples, num_raw_samples)

CreateNext == CreateStep

CreateSpec == Init /\ [][CreateNext]_vars

-----------------------------------------------------------------------------
(* Properties of the ask/tell orchestrator, checked under Spec and TellAskSpec *)

\* C1: on the domain with a, b continuous in [0, 1] and d categorical with three
\* allowed categories, one-hot encoded, with categorical_method = EXHAUSTIVE and
\* no NChooseK constraint, an ask(candidate_count = 1) on a fitted strategy with
\* sufficient experiments calls the mixed optimizer with exactly three
\* fixed-feature dictionaries, one per category of d, each pinning exactly the
\* one-hot columns of d (one 1, two 0) and no column of a or b
C1_ThreeCategoriesThreeDicts ==
    LET idxs == features2idx["d"]
        onehot(k) == [x \in Range(idxs) |-> IF x = idxs[k] THEN 1 ELSE 0]
        fixed == last.fixed_features_list
    IN  ( /\ domain = [inputs |-> <<FeatA, FeatB, FeatD3>>, constraints |-> <<>>]
          /\ input_preprocessing_specs["d"] = ONE_HOT
          /\ categorical_method = EXHAUSTIVE
          /\ is_fitted /\ acqf # "None" /\ has_sufficient_experiments
          /\ last.op = "ask" /\ last.args.candidate_count = <<1>>
          /\ last.args.candidate_pool = <<>> )
        => /\ last.optimizer = "optimize_acqf_mixed"
           /\ Len(fixed) = 3
           /\ Range(fixed) = {onehot(1), onehot(2), onehot(3)}
           /\ \A i \in DOMAIN fixed :
                /\ DOMAIN fixed[i] = Range(idxs)
                /\ DOMAIN fixed[i] \cap (Range(features2idx["a"]) \cup Range(features2idx["b"])) = {}

\* C1 witness: such an ask has returned its candidates and three dictionaries were passed
C1_Witness ==
    /\ domain = [inputs |-> <<FeatA, FeatB, FeatD3>>, constraints |-> <<>>]
    /\ categorical_method = EXHAUSTIVE
    /\ is_fitted
    /\ last.op = "ask" /\ last.args.candidate_count = <<1>> /\ last.raised = "none"
    /\ last.args.candidate_pool = <<>>
    /\ last.optimizer = "optimize_acqf_mixed"
    /\ Len(last.fixed_features_list) = 3

\* C4 as stated: an ask on a strategy that was never told any experiments raises
\* the insufficient-experiments ValueError, whatever its arguments
C4_AskWithoutExperimentsRaisesInsufficient ==
    (last.op = "ask" /\ experiments = None_)
    => last.raised = InsufficientExperiments

\* C4 amended: an ask with candidate_count None or >= 1 on a strategy that was
\* never told any experiments raises the insufficient-experiments ValueError
\* before any surrogate fit, acquisition-function check or optimizer call
C4_ValidAskWithoutExperimentsRaisesInsufficient ==
    ( /\ last.op = "ask" /\ experiments = None_
      /\ (last.args.candidate_count = <<>> \/ last.args.candidate_count[1] >= 1) )
    => /\ last.raised = InsufficientExperiments
       /\ last.optimizer = "none"
       /\ ~last.fit_called
       /\ ~last.init_acqf_called

\* C4 witness: ask(candidate_count = 1) with no experiments has raised the error
C4_Witness ==
    /\ last.op = "ask" /\ experiments = None_
    /\ last.args.candidate_count = <<1>>
    /\ last.raised = InsufficientExperiments

\* C5 as stated: every tell triggers a surrogate fit exactly when the accumulated
\* experiment count exceeds (number of input features - number of pinned
\* columns) + 1, and after a tell that fitted the strategy is fitted and has an
\* acquisition function
C5_TellFitsExactlyAboveThreshold ==
    LET threshold == Len(domain.inputs) - Cardinality(DOMAIN get_fixed_features) + 1
    IN  last.op = "tell"
        => /\ last.fit_called <=> (experiments # None_ /\ experiments > threshold)
           /\ last.fit_called => (is_fitted /\ acqf # "None")

\* C5 amended: a tell of a non-empty batch that passes validate_experiments
\* accumulates the batch (replacing the stored experiments under replace,
\* appending otherwise) and calls the surrogate
\* fit exactly when retrain is set and the accumulated count exceeds (number of
\* input features - number of pinned columns) + 1; when the fit succeeds the
\* strategy is fitted, holds its model and init_acqf is called, which sets the
\* acquisition function or leaves it as it was, and when no fit is called
\* is_fitted, the model and acqf are left as they were; a tell of an empty batch
\* returns without a fit and leaves the experiments, is_fitted, the model and
\* acqf as they were
C5_RetrainingTellFitsExactlyAboveThreshold ==
    [][ LET threshold == Len(domain.inputs) - Cardinality(DOMAIN get_fixed_features) + 1
            call == last'
        IN  /\ (call.op = "tell" /\ call.args.rows > 0 /\ call.raised # "validate_experiments")
               => /\ experiments' = IF call.args.replace \/ experiments = None_
                                       THEN call.args.rows
                                       ELSE experiments + call.args.rows
                  /\ call.fit_called <=> (call.args.retrain /\ experiments' > threshold)
                  /\ (call.fit_called /\ call.raised \notin FitErrors)
                     => (/\ is_fitted' /\ model' = "model"
                         /\ call.init_acqf_called /\ acqf' \in {"acqf", acqf})
                  /\ (call.fit_called /\ call.raised \in FitErrors)
                     => (~call.init_acqf_called /\ UNCHANGED <<is_fitted, model, acqf>>)
                  /\ ~call.fit_called
                     => (~call.init_acqf_called /\ UNCHANGED <<is_fitted, model, acqf>>)
            /\ (call.op = "tell" /\ call.args.rows = 0)
               => /\ ~call.fit_called /\ ~call.init_acqf_called /\ call.raised = "none"
                  /\ UNCHANGED <<experiments, is_fitted, model, acqf>> ]_vars

\* C5 witness: an appending tell has taken the count above the threshold and fitted
C5_Witness ==
    /\ last.op = "tell" /\ last.args.rows > 0 /\ ~last.args.replace /\ last.args.retrain
    /\ experiments > last.args.rows
    /\ last.fit_called /\ last.init_acqf_called /\ last.raised = "none"
    /\ is_fitted /\ acqf = "acqf"

\* C6: in every sequence of tell and ask calls an ask returns candidates only
\* on a fitted strategy with an initialised acquisition function, the strategy
\* becomes fitted only by a tell whose surrogate fit returned, the acquisition
\* function is set only by a tell that called init_acqf after that fit, and an
\* ask on an unfitted strategy raises and adds no pending candidates
C6_AskReturnsOnlyWhenFitted ==
    [][ LET call == last'
        IN  /\ call.op = "PredictiveStrategy.ask" => call.raised # "none"
            /\ (call.op = "ask" /\ call.raised = "none")
               => (is_fitted /\ model # "None" /\ acqf # "None")
            /\ (call.op = "ask" /\ ~is_fitted)
               => (call.raised # "none" /\ candidates' = candidates)
            /\ (is_fitted' /\ ~is_fitted)
               => (call.op = "tell" /\ call.fit_called /\ call.raised \notin FitErrors)
            /\ acqf' # acqf
               => (call.op = "tell" /\ call.init_acqf_called /\ is_fitted') ]_vars

\* C6 witness: an ask on a strategy with sufficient experiments that was told
\* without retraining has raised
C6_Witness ==
    /\ last.op = "ask" /\ last.raised = "AssertionError"
    /\ ~is_fitted /\ has_sufficient_experiments

\* C7 as stated: without NChooseK constraint, ask calls the continuous optimizer
\* with fixed_features = get_fixed_features() exactly when the domain has no
\* categorical or discrete feature or all three methods are FREE, and otherwise
\* the mixed optimizer with the list of get_categorical_combinations()
C7_ContinuousIffNoCategoricalOrAllFree ==
    LET num_categorical_features ==
            Cardinality({f \in Range(domain.inputs) :
                            f.type \in {"CategoricalInput", "CategoricalDescriptorInput",
                                        "DiscreteInput"}})
        all_free == /\ categorical_method = FREE
                    /\ descriptor_method = FREE
                    /\ discrete_method = FREE
    IN  (last.op = "ask" /\ last.optimizer # "none" /\ domain.constraints = <<>>)
        => IF num_categorical_features = 0 \/ all_free
           THEN /\ last.optimizer = "optimize_acqf"
                /\ last.fixed_features = get_fixed_features
           ELSE /\ last.optimizer = "optimize_acqf_mixed"
                /\ last.fixed_features_list = get_categorical_combinations

\* C7 amended: without NChooseK constraint, ask calls the continuous optimizer
\* with fixed_features = get_fixed_features() exactly when the domain has no
\* categorical or discrete feature, or every categorical feature has a single
\* allowed category and there is no discrete feature, or all three methods are
\* FREE; otherwise it calls the mixed optimizer with the list of
\* get_categorical_combinations()
C7_ContinuousIffNothingToEnumerateOrAllFree ==
    LET categoricals == {f \in Range(domain.inputs) :
                            f.type \in {"CategoricalInput", "CategoricalDescriptorInput"}}
        discretes == {f \in Range(domain.inputs) : f.type = "DiscreteInput"}
        single(f) == Cardinality({i \in DOMAIN f.allowed : f.allowed[i]}) = 1
        nothing_to_enumerate == discretes = {} /\ \A f \in categoricals : single(f)
        all_free == /\ categorical_method = FREE
                    /\ descriptor_method = FREE
                    /\ discrete_method = FREE
    IN  (last.op = "ask" /\ last.optimizer # "none" /\ domain.constraints = <<>>)
        => IF nothing_to_enumerate \/ all_free
           THEN /\ last.optimizer = "optimize_acqf"
                /\ last.fixed_features = get_fixed_features
                /\ last.fixed_features_list = <<>>
           ELSE /\ last.optimizer = "optimize_acqf_mixed"
                /\ last.fixed_features_list = get_categorical_combinations

\* C7 witness: an ask on a domain whose only categorical feature is fixed, with
\* categorical_method = EXHAUSTIVE, has called the continuous optimizer
C7_Witness ==
    /\ last.op = "ask" /\ last.optimizer = "optimize_acqf"
    /\ domain.constraints = <<>>
    /\ categorical_method = EXHAUSTIVE
    /\ \E f \in Range(domain.inputs) : f.type = "CategoricalInput" /\ is_fixed(f)
    /\ last.fixed_features = get_fixed_features /\ last.fixed_features # EmptyDict

-----------------------------------------------------------------------------
(* Properties of the enumerators and the composer, checked under EnumSpec *)

\* C2: when at least one method is EXHAUSTIVE and the cross-product of the
\* allowed values of the enumerated features (the discrete inputs, the plain
\* categoricals and the descriptor categoricals whose method is EXHAUSTIVE) has
\* more than one element, get_categorical_combinations returns exactly one
\* dictionary per element of the cross-product, and in every dictionary each
\* enumerated one-hot categorical has exactly one column at 1 and its other
\* columns at 0
C2_OneDictPerCrossProductElement ==
    LET enumerated(f) ==
            \/ f.type = "DiscreteInput" /\ discrete_method = EXHAUSTIVE
            \/ f.type = "CategoricalInput" /\ categorical_method = EXHAUSTIVE
            \/ f.type = "CategoricalDescriptorInput" /\ descriptor_method = EXHAUSTIVE
        feats == {f \in Range(domain.inputs) : enumerated(f)}
        \* the allowed values of a feature, in their order
        allowed_values(f) ==
            IF f.type = "DiscreteInput" THEN f.values ELSE get_allowed_categories(f)
        keys == {f.key : f \in feats}
        feature(k) == CHOOSE f \in feats : f.key = k
        \* an element of the cross-product chooses for every enumerated feature
        \* the position of one of its allowed values
        cross == {c \in [keys -> 1..(MaxCats + MaxDiscrete)] :
                    \A k \in keys : c[k] <= Len(allowed_values(feature(k)))}
        value(c, f) == allowed_values(f)[c[f.key]]
        one_hot == {f \in feats : f.type # "DiscreteInput"
                                   /\ input_preprocessing_specs[f.key] = ONE_HOT}
        column(f, cat) == features2idx[f.key][IndexOf(f.categories, cat)]
        \* the dictionary d pins the encoding of the value c[f.key] of every enumerated feature
        encodes(d, c) ==
            \A f \in feats :
                LET idxs == features2idx[f.key]
                IN  /\ Range(idxs) \subseteq DOMAIN d
                    /\ IF f.type = "DiscreteInput" THEN d[idxs[1]] = value(c, f)
                       ELSE IF input_preprocessing_specs[f.key] = ONE_HOT
                       THEN \A cat \in Range(f.categories) :
                                d[column(f, cat)] = IF cat = value(c, f) THEN 1 ELSE 0
                       ELSE \A j \in DOMAIN idxs :
                                d[idxs[j]] = f.values[IndexOf(f.categories, value(c, f))][j]
        result == last.fixed_features_list
    IN  ( /\ last.op = "get_categorical_combinations"
          /\ EXHAUSTIVE \in {categorical_method, descriptor_method, discrete_method}
          /\ Cardinality(cross) > 1 )
        => /\ Len(result) = Cardinality(cross)
           /\ \A c \in cross : \E i \in DOMAIN result : encodes(result[i], c)
           /\ \A i \in DOMAIN result : \A f \in one_hot :
                /\ Range(features2idx[f.key]) \subseteq DOMAIN result[i]
                /\ Cardinality({x \in Range(features2idx[f.key]) : result[i][x] = 1}) = 1
                /\ \A x \in Range(features2idx[f.key]) : result[i][x] \in {0, 1}

\* C2 witness: a one-hot plain categorical, a one-hot descriptor categorical and a
\* discrete input have been enumerated together
C2_Witness ==
    /\ last.op = "get_categorical_combinations"
    /\ categorical_method = EXHAUSTIVE /\ descriptor_method = EXHAUSTIVE
    /\ discrete_method = EXHAUSTIVE
    /\ \E f \in Range(domain.inputs) :
          f.type = "CategoricalInput" /\ f.allowed = AllAllowed
    /\ \E f \in Range(domain.inputs) :
          /\ f.type = "CategoricalDescriptorInput" /\ f.allowed = FirstForbidden
          /\ input_preprocessing_specs[f.key] = ONE_HOT
    /\ \E f \in Range(domain.inputs) : f.type = "DiscreteInput"
    /\ Len(last.fixed_features_list) = MaxCats * (MaxCats - 1) * MaxDiscrete

\* C3 as stated: when all three methods are FREE, get_categorical_combinations
\* returns exactly the one-element list [fixed_basis], where fixed_basis is the
\* dictionary of get_fixed_features()
C3_AllFreeReturnsFixedBasis ==
    ( /\ last.op = "get_categorical_combinations"
      /\ categorical_method = FREE /\ descriptor_method = FREE /\ discrete_method = FREE )
    => last.fixed_features_list = << get_fixed_features >>

\* C8: for a domain with a single NChooseK constraint over n features with
\* bounds min_count and max_count, get_nchoosek_combinations returns
\* sum_{k = min_count..max_count} C(n, k) dictionaries, plus one when
\* none_also_valid is set and min_count > 0; six for (min 1, max 2, not
\* none_also_valid) over three features
C8_NChooseKCombinationCount ==
    LET con == domain.constraints[1]
        n == Len(con.features)
        C[m \in 0..n, k \in 0..n] ==
            IF k = 0 THEN 1
            ELSE IF m = 0 THEN 0
            ELSE C[m - 1, k - 1] + C[m - 1, k]
        S[k \in (con.min_count - 1)..con.max_count] ==
            IF k = con.min_count - 1 THEN 0 ELSE S[k - 1] + C[n, k]
        none == IF con.none_also_valid /\ con.min_count > 0 THEN 1 ELSE 0
    IN  (last.op = "get_nchoosek_combinations" /\ Len(domain.constraints) = 1)
        => /\ Len(last.fixed_features_list) = S[con.max_count] + none
           /\ ( n = 3 /\ con.min_count = 1 /\ con.max_count = 2 /\ ~con.none_also_valid )
              => Len(last.fixed_features_list) = 6

\* C8 witness: the six combinations of one or two out of three features
C8_Witness ==
    /\ last.op = "get_nchoosek_combinations"
    /\ domain.constraints = <<NChooseKConstraint(<<"a", "b", "c">>, 1, 2, FALSE)>>
    /\ Len(last.fixed_features_list) = 6

\* C9: get_nchoosek_combinations never returns an empty list, and for a domain
\* with no NChooseK constraint it returns exactly the list [{}]
C9_NChooseKNeverEmpty ==
    last.op = "get_nchoosek_combinations"
    => /\ Len(last.fixed_features_list) >= 1
       /\ domain.constraints = <<>> => last.fixed_features_list = << EmptyDict >>

\* C9 witness: the enumerator was called on a domain with continuous inputs and
\* no constraint
C9_Witness ==
    /\ last.op = "get_nchoosek_combinations"
    /\ domain.constraints = <<>>
    /\ \E f \in Range(domain.inputs) : f.type = "ContinuousInput" /\ is_fixed(f)
    /\ last.fixed_features_list = << EmptyDict >>

\* C10: the list of get_fixed_values_list has exactly
\* len(get_categorical_combinations()) * len(get_nchoosek_combinations())
\* dictionaries, one for every pair of a categorical dictionary and an
\* n-choose-k dictionary, which is the first updated with the second
C10_FixedValuesListIsProduct ==
    LET cc == get_categorical_combinations
        nk == get_nchoosek_combinations
        result == last.fixed_features_list
    IN  last.op = "get_fixed_values_list"
        => /\ Len(result) = Len(cc) * Len(nk)
           /\ \A i \in DOMAIN cc : \A j \in DOMAIN nk :
                LET ff == result[(i - 1) * Len(nk) + j]
                IN  /\ DOMAIN ff = DOMAIN cc[i] \cup DOMAIN nk[j]
                    /\ \A x \in DOMAIN ff :
                          ff[x] = IF x \in DOMAIN nk[j] THEN nk[j][x] ELSE cc[i][x]

\* C10 witness: several categorical dictionaries were combined with several
\* n-choose-k dictionaries
C10_Witness ==
    /\ last.op = "get_fixed_values_list"
    /\ Len(get_categorical_combinations) > 1
    /\ Len(get_nchoosek_combinations) > 1
    /\ Len(last.fixed_features_list) > Len(get_categorical_combinations)
    /\ Len(last.fixed_features_list) > Len(get_nchoosek_combinations)

\* C11: get_fixed_features pins the single column of every continuous input with
\* lower = upper = v to v, and pins every one-hot column of every categorical
\* input with exactly one allowed category: 1 at the column of the allowed
\* category and 0 at every sibling column; every column owned by a fixed
\* feature is pinned
C11_FixedFeaturesPinned ==
    LET d == last.fixed_features
        idxs(f) == features2idx[f.key]
        single_allowed(f) == Cardinality({i \in DOMAIN f.allowed : f.allowed[i]}) = 1
    IN  last.op = "get_fixed_features"
        => \A f \in Range(domain.inputs) :
             /\ (f.type = "ContinuousInput" /\ f.bounds[1] = f.bounds[2])
                => /\ Len(idxs(f)) = 1
                   /\ idxs(f)[1] \in DOMAIN d
                   /\ d[idxs(f)[1]] = f.bounds[1]
             /\ (f.type \in {"CategoricalInput", "CategoricalDescriptorInput"}
                 /\ single_allowed(f))
                => /\ Range(idxs(f)) \subseteq DOMAIN d
                   /\ input_preprocessing_specs[f.key] = ONE_HOT
                      => /\ Len(idxs(f)) = Len(f.categories)
                         /\ \A j \in DOMAIN f.categories :
                               d[idxs(f)[j]] = IF f.allowed[j] THEN 1 ELSE 0

\* C11 witness: the resolver was called on a, b = 3 fixed and a one-hot
\* categorical d with only its first category allowed, and pinned column 1 to 3
\* and the columns 2.. of d to 1, 0, ..
C11_Witness ==
    /\ last.op = "get_fixed_features"
    /\ domain.inputs = <<FeatA, FeatBFixed, CategoricalInput("d", Categories, OnlyFirstAllowed)>>
    /\ DOMAIN last.fixed_features = 1..(1 + MaxCats)
    /\ last.fixed_features[1] = 3
    /\ last.fixed_features[2] = 1
    /\ \A x \in 3..(1 + MaxCats) : last.fixed_features[x] = 0

\* C12: the column layout gives every input feature a run of consecutive column
\* indices; the runs of different features are pairwise disjoint and together
\* cover exactly 0..width-1, where width is the sum of the column counts (one
\* for a continuous or discrete input, the number of categories for a one-hot
\* categorical, the number of descriptors for a descriptor-encoded one); and
\* computing the layout again from the same domain and spec, each feature
\* starting at the sum of the column counts of the features placed before it
\* (those of an earlier class, and those of its class declared before it),
\* gives the same layout
C12_LayoutIsPartitionOfColumns ==
    LET layout == last.features2idx
        fs == domain.inputs
        columns(f) ==
            IF f.type \in {"ContinuousInput", "DiscreteInput"} THEN 1
            ELSE IF input_preprocessing_specs[f.key] = ONE_HOT THEN Len(f.categories)
            ELSE Len(f.values[1])
        total[i \in 0..Len(fs)] == IF i = 0 THEN 0 ELSE total[i - 1] + columns(fs[i])
        width == total[Len(fs)]
        classes == <<"ContinuousInput", "DiscreteInput",
                     "CategoricalDescriptorInput", "CategoricalInput">>
        class(f) == CHOOSE r \in DOMAIN classes : classes[r] = f.type
        before(j, i) == \/ class(fs[j]) < class(fs[i])
                        \/ class(fs[j]) = class(fs[i]) /\ j < i
        first(i) ==
            LET sum[n \in 0..Len(fs)] ==
                    IF n = 0 THEN 0
                    ELSE sum[n - 1] + (IF before(n, i) THEN columns(fs[n]) ELSE 0)
            IN  sum[Len(fs)]
    IN  last.op = "_features2idx"
        => /\ DOMAIN layout = {f.key : f \in Range(fs)}
           /\ \A f \in Range(fs) :
                /\ Len(layout[f.key]) = columns(f)
                /\ \A j \in 2..Len(layout[f.key]) :
                      layout[f.key][j] = layout[f.key][j - 1] + 1
           /\ \A f, g \in Range(fs) :
                f.key # g.key => Range(layout[f.key]) \cap Range(layout[g.key]) = {}
           /\ UNION {Range(layout[k]) : k \in DOMAIN layout} = 0..(width - 1)
           /\ \A i \in DOMAIN fs :
                layout[fs[i].key] = [k \in 1..columns(fs[i]) |-> first(i) + k - 1]

\* C12 witness: the layout of a continuous, a discrete, a descriptor-encoded and
\* a one-hot categorical input, with runs of one, one, two and MaxCats columns
C12_Witness ==
    /\ last.op = "_features2idx"
    /\ DOMAIN last.features2idx = {"a", "d", "e", "v"}
    /\ input_preprocessing_specs["e"] = DESCRIPTOR
    /\ last.features2idx["a"] = <<0>>
    /\ last.features2idx["v"] = <<1>>
    /\ last.features2idx["e"] = <<2, 3>>
    /\ last.features2idx["d"] = [j \in 1..MaxCats |-> 3 + j]

-----------------------------------------------------------------------------
(* Claims on the construction of the data model: CreateSpec *)

\* C13: constructing the data model raises a ValueError for every
\* num_sobol_samples and every num_raw_samples that is not a power of two and
\* accepts every positive power of two; is_power_of_two(n) holds iff n = 2^k for
\* some k >= 0
C13_SampleCountsArePowersOfTwo ==
    LET \* n = 2^k for some k >= 0: n is positive and has no odd divisor above 1
        power_of_two(n) == n >= 1 /\ \A m \in 2..n : (n % m = 0) => (m % 2 = 0)
        given == {v[1] : v \in {last.args.num_sobol_samples, last.args.num_raw_samples} \ {<<>>}}
    IN  last.op = "create"
        => /\ \A n \in given : is_power_of_two(n) <=> power_of_two(n)
           /\ (last.raised = "ValueError") <=> (\E n \in given : ~power_of_two(n))
           /\ (last.raised = "none") <=> (\A n \in given : power_of_two(n))
           /\ ( /\ last.args.num_sobol_samples # <<>>
                /\ last.args.num_sobol_samples[1] > 0
                /\ ~power_of_two(last.args.num_sobol_samples[1]) )
              => validate_num_sobol_samples(last.args.num_sobol_samples) \in Range(last.errors)
           /\ ( /\ last.args.num_raw_samples # <<>>
                /\ last.args.num_raw_samples[1] > 0
                /\ ~power_of_two(last.args.num_raw_samples[1]) )
              => validate_num_raw_samples(last.args.num_raw_samples) \in Range(last.errors)

\* C13 witness: num_sobol_samples = 5 was rejected with the sobol message while
\* num_raw_samples = 32 was accepted
C13_Witness ==
    /\ last.op = "create"
    /\ last.args.num_sobol_samples = <<5>>
    /\ last.args.num_raw_samples = <<32>>
    /\ last.raised = "ValueError"
    /\ last.errors = << "number sobol samples have to be of the power of 2 to increase performance" >>

-----------------------------------------------------------------------------
(* Further claims on the resolver, the enumerators and the composer: EnumSpec *)

C15_EveryDictIsBaseOverlaidWithOneTuple ==
    LET enumerated(f) ==
            \/ f.type = "DiscreteInput" /\ discrete_method = EXHAUSTIVE
            \/ f.type = "CategoricalInput" /\ categorical_method = EXHAUSTIVE
            \/ f.type = "CategoricalDescriptorInput" /\ descriptor_method = EXHAUSTIVE
        feats == {f \in Range(domain.inputs) : enumerated(f)}
        keys == {f.key : f \in feats}
        feature(k) == CHOOSE f \in feats : f.key = k
        allowed_values(f) ==
            IF f.type = "DiscreteInput" THEN f.values ELSE get_allowed_categories(f)
        cross == {c \in [keys -> 1..(MaxCats + MaxDiscrete)] :
                    \A k \in keys : c[k] <= Len(allowed_values(feature(k)))}
        base == get_fixed_features
        \* the value pinned on the j-th column of f when the value val is chosen
        pin(f, val, j) ==
            IF f.type = "DiscreteInput" THEN val
            ELSE IF input_preprocessing_specs[f.key] = ONE_HOT
            THEN (IF f.categories[j] = val THEN 1 ELSE 0)
            ELSE f.values[CHOOSE r \in DOMAIN f.categories : f.categories[r] = val][j]
        owner(x) == CHOOSE f \in feats : x \in Range(features2idx[f.key])
        position(f, x) == CHOOSE j \in DOMAIN features2idx[f.key] : features2idx[f.key][j] = x
        enumerated_columns == UNION {Range(features2idx[k]) : k \in keys}
        overlaid(c) ==
            [x \in DOMAIN base \cup enumerated_columns |->
                IF x \in enumerated_columns
                THEN pin(owner(x), allowed_values(owner(x))[c[owner(x).key]],
                         position(owner(x), x))
                ELSE base[x]]
        result == last.fixed_features_list
    IN  ( /\ last.op = "get_categorical_combinations"
          /\ EXHAUSTIVE \in {categorical_method, descriptor_method, discrete_method}
          /\ Cardinality(cross) > 1 )
        => /\ \A i \in DOMAIN result : \E c \in cross : result[i] = overlaid(c)
           /\ \A c \in cross : \E i \in DOMAIN result : result[i] = overlaid(c)
           /\ Len(result) = Cardinality(cross)

\* C15 witness: on a domain with a fixed continuous input (so the base dictionary
\* is not empty), a one-hot categorical, a descriptor-encoded categorical and a
\* discrete input, all enumerated, the first dictionary is the base with the
\* first value of each
C15_Witness ==
    /\ last.op = "get_categorical_combinations"
    /\ categorical_method = EXHAUSTIVE /\ descriptor_method = EXHAUSTIVE
    /\ discrete_method = EXHAUSTIVE
    /\ domain.inputs = <<FeatA, FeatBFixed,
                         CategoricalInput("d", Categories, AllAllowed),
                         CategoricalDescriptorInput("e", Categories, AllAllowed, DescriptorValues),
                         FeatV>>
    /\ input_preprocessing_specs["e"] = DESCRIPTOR
    /\ Len(last.fixed_features_list) = MaxCats * MaxCats * MaxDiscrete
    /\ DOMAIN last.fixed_features_list[1] = 1..(4 + MaxCats)
    /\ last.fixed_features_list[1][1] = 3
    /\ last.fixed_features_list[1][2] = 1
    /\ last.fixed_features_list[1][3] = 1 /\ last.fixed_features_list[1][4] = 2
    /\ last.fixed_features_list[1][5] = 1 /\ last.fixed_features_list[1][6] = 0

\* C16: a feature class is enumerated iff its method is EXHAUSTIVE: every
\* dictionary returned by get_categorical_combinations pins every column of
\* every discrete, plain categorical or descriptor categorical input whose class
\* method is EXHAUSTIVE, and on the columns of an input whose class method is
\* FREE it has no pin that the base dictionary does not have
C16_EnumeratedIffExhaustive ==
    LET method(f) ==
            CASE f.type = "DiscreteInput" -> discrete_method
              [] f.type = "CategoricalInput" -> categorical_method
              [] f.type = "CategoricalDescriptorInput" -> descriptor_method
        classed == {f \in Range(domain.inputs) : f.type # "ContinuousInput"}
        base == get_fixed_features
        result == last.fixed_features_list
    IN  last.op = "get_categorical_combinations"
        => \A i \in DOMAIN result : \A f \in classed :
             /\ method(f) = EXHAUSTIVE
                => Range(features2idx[f.key]) \subseteq DOMAIN result[i]
             /\ method(f) = FREE
                => \A x \in Range(features2idx[f.key]) \cap DOMAIN result[i] :
                      x \in DOMAIN base /\ result[i][x] = base[x]

\* C16 witness: with categorical_method EXHAUSTIVE and the other two FREE, the
\* plain categorical d is pinned in every dictionary, the discrete input v in
\* none, and the descriptor-encoded e only on its constant first descriptor,
\* which the base dictionary pins
C16_Witness ==
    /\ last.op = "get_categorical_combinations"
    /\ categorical_method = EXHAUSTIVE /\ descriptor_method = FREE
    /\ discrete_method = FREE
    /\ domain.inputs = <<FeatA,
                         CategoricalInput("d", Categories, AllAllowed),
                         CategoricalDescriptorInput("e", Categories, FirstForbidden, DescriptorValues),
                         FeatV>>
    /\ Len(last.fixed_features_list) = MaxCats
    /\ \A i \in DOMAIN last.fixed_features_list :
          /\ DOMAIN last.fixed_features_list[i] = {2} \cup 4..(3 + MaxCats)
          /\ last.fixed_features_list[i][2] = 3

\* C17: when categorical_method and descriptor_method are both EXHAUSTIVE, every
\* categorical-with-descriptors input contributes exactly one factor to the
\* cross-product: the list has as many dictionaries as the product of the
\* numbers of allowed values of the enumerated inputs, each input counted once,
\* and every allowed category of the input is chosen in the same number of
\* dictionaries; its pins follow its encoding: its descriptor columns carry the
\* descriptor values of the chosen category when it is descriptor-encoded, its
\* one-hot columns the one-hot vector of the chosen category when it is
\* one-hot-encoded
C17_DescriptorCategoricalCountedOnce ==
    LET fs == domain.inputs
        enumerated(f) ==
            \/ f.type = "DiscreteInput" /\ discrete_method = EXHAUSTIVE
            \/ f.type \in {"CategoricalInput", "CategoricalDescriptorInput"}
        count(f) ==
            IF ~enumerated(f) THEN 1
            ELSE IF f.type = "DiscreteInput" THEN Len(f.values)
            ELSE Cardinality({i \in DOMAIN f.allowed : f.allowed[i]})
        product[i \in 0..Len(fs)] == IF i = 0 THEN 1 ELSE product[i - 1] * count(fs[i])
        result == last.fixed_features_list
        \* the pins of category r of f under its encoding
        encoded(f, r) ==
            IF input_preprocessing_specs[f.key] = DESCRIPTOR THEN f.values[r]
            ELSE [j \in DOMAIN f.categories |-> IF j = r THEN 1 ELSE 0]
        \* the pins of f in the dictionary d, in the order of its columns
        pins(f, d) == [j \in DOMAIN features2idx[f.key] |-> d[features2idx[f.key][j]]]
        allowed_rows(f) == {r \in DOMAIN f.allowed : f.allowed[r]}
        same_pins(f, r) == {q \in allowed_rows(f) : encoded(f, q) = encoded(f, r)}
    IN  ( /\ last.op = "get_categorical_combinations"
          /\ categorical_method = EXHAUSTIVE /\ descriptor_method = EXHAUSTIVE )
        => /\ Len(result) = product[Len(fs)]
           /\ \A f \in Range(fs) : f.type = "CategoricalDescriptorInput"
                => /\ \A i \in DOMAIN result :
                         /\ Range(features2idx[f.key]) \subseteq DOMAIN result[i]
                         /\ \E r \in allowed_rows(f) : pins(f, result[i]) = encoded(f, r)
                   /\ \A r \in allowed_rows(f) :
                         Cardinality({i \in DOMAIN result : pins(f, result[i]) = encoded(f, r)})
                           * count(f)
                         = Len(result) * Cardinality(same_pins(f, r))

\* C17 witness: a descriptor-encoded categorical e with all categories allowed
\* was enumerated with both methods EXHAUSTIVE into one dictionary per
\* category, the first with the descriptor values 1, 2 of the first category
C17_Witness ==
    /\ last.op = "get_categorical_combinations"
    /\ categorical_method = EXHAUSTIVE /\ descriptor_method = EXHAUSTIVE
    /\ domain.inputs = <<FeatA,
                         CategoricalDescriptorInput("e", Categories, AllAllowed, DescriptorValues)>>
    /\ input_preprocessing_specs["e"] = DESCRIPTOR
    /\ Len(last.fixed_features_list) = MaxCats
    /\ last.fixed_features_list[1] = (1 :> 1) @@ (2 :> 2)

\* C18 as stated: when the cross-product of the allowed values of the inputs of
\* the EXHAUSTIVE classes has exactly one element (every such input has a single
\* allowed value, or there is no such input), get_categorical_combinations
\* returns [base], which is also the list got by overlaying that single element
\* on the base
C18_SingleTupleReturnsBase ==
    LET enumerated(f) ==
            \/ f.type = "DiscreteInput" /\ discrete_method = EXHAUSTIVE
            \/ f.type = "CategoricalInput" /\ categorical_method = EXHAUSTIVE
            \/ f.type = "CategoricalDescriptorInput" /\ descriptor_method = EXHAUSTIVE
        feats == {f \in Range(domain.inputs) : enumerated(f)}
        allowed_values(f) ==
            IF f.type = "DiscreteInput" THEN f.values ELSE get_allowed_categories(f)
        single == \A f \in feats : Len(allowed_values(f)) = 1
        base == get_fixed_features
        pin(f, val, j) ==
            IF f.type = "DiscreteInput" THEN val
            ELSE IF input_preprocessing_specs[f.key] = ONE_HOT
            THEN (IF f.categories[j] = val THEN 1 ELSE 0)
            ELSE f.values[CHOOSE r \in DOMAIN f.categories : f.categories[r] = val][j]
        owner(x) == CHOOSE f \in feats : x \in Range(features2idx[f.key])
        position(f, x) == CHOOSE j \in DOMAIN features2idx[f.key] : features2idx[f.key][j] = x
        enumerated_columns == UNION {Range(features2idx[f.key]) : f \in feats}
        \* the base overlaid with the only element of the cross-product
        overlaid ==
            [x \in DOMAIN base \cup enumerated_columns |->
                IF x \in enumerated_columns
                THEN pin(owner(x), allowed_values(owner(x))[1], position(owner(x), x))
                ELSE base[x]]
    IN  (last.op = "get_categorical_combinations" /\ single)
        => /\ last.fixed_features_list = << base >>
           /\ last.fixed_features_list = << overlaid >>

\* C19 as stated: for every domain and encoding spec the list returned by
\* get_categorical_combinations contains no two equal dictionaries
C19_NoTwoEqualDictionaries ==
    last.op = "get_categorical_combinations"
    => \A i, j \in DOMAIN last.fixed_features_list :
          i # j => last.fixed_features_list[i] # last.fixed_features_list[j]

\* C19 amended: the list returned by get_categorical_combinations contains no two
\* equal dictionaries when no descriptor-encoded categorical has two allowed
\* categories with the same descriptor values
C19_NoTwoEqualDictionariesForDistinctDescriptors ==
    LET descriptor_encoded ==
            {f \in Range(domain.inputs) :
                /\ f.type = "CategoricalDescriptorInput"
                /\ input_preprocessing_specs[f.key] = DESCRIPTOR}
        distinct_rows(f) ==
            \A r, q \in DOMAIN f.categories :
                (f.allowed[r] /\ f.allowed[q] /\ r # q) => f.values[r] # f.values[q]
    IN  ( /\ last.op = "get_categorical_combinations"
          /\ \A f \in descriptor_encoded : distinct_rows(f) )
        => \A i, j \in DOMAIN last.fixed_features_list :
              i # j => last.fixed_features_list[i] # last.fixed_features_list[j]

\* C19 witness: a one-hot categorical, a descriptor-encoded categorical with
\* distinct descriptor rows and a discrete input were enumerated into
\* MaxCats * MaxCats * MaxDiscrete dictionaries, all different
C19_Witness ==
    /\ last.op = "get_categorical_combinations"
    /\ categorical_method = EXHAUSTIVE /\ descriptor_method = EXHAUSTIVE
    /\ discrete_method = EXHAUSTIVE
    /\ domain.inputs = <<FeatA,
                         CategoricalInput("d", Categories, AllAllowed),
                         CategoricalDescriptorInput("e", Categories, AllAllowed, DescriptorValues),
                         FeatV>>
    /\ input_preprocessing_specs["e"] = DESCRIPTOR
    /\ Cardinality(Range(last.fixed_features_list)) = MaxCats * MaxCats * MaxDiscrete

\* C20: every dictionary returned by get_nchoosek_combinations corresponds to one
\* generated subset of the constrained group: it pins to 0 exactly the columns of
\* the features of the group that the subset does not use and has no key for a
\* used feature; every generated subset has its dictionary; without a
\* constraint the dictionary pins nothing
C20_NChooseKPinsExactlyUnused ==
    LET result == last.fixed_features_list
        con == domain.constraints[1]
        group == Range(con.features)
        generated ==
            {S \in SUBSET group :
                \/ (Cardinality(S) >= con.min_count /\ Cardinality(S) <= con.max_count)
                \/ (S = {} /\ con.none_also_valid)}
        column(k) == features2idx[k][1]
        columns(K) == {column(k) : k \in K}
    IN  last.op = "get_nchoosek_combinations"
        => /\ \A i \in DOMAIN result : \A x \in DOMAIN result[i] : result[i][x] = 0
           /\ Len(domain.constraints) = 0 => \A i \in DOMAIN result : DOMAIN result[i] = {}
           /\ Len(domain.constraints) = 1
              => /\ \A i \in DOMAIN result : \E S \in generated :
                       /\ DOMAIN result[i] = columns(group \ S)
                       /\ DOMAIN result[i] \cap columns(S) = {}
                 /\ \A S \in generated : \E i \in DOMAIN result :
                       DOMAIN result[i] = columns(group \ S)
                 /\ Len(result) = Cardinality(generated)

\* C20 witness: for one or two out of a, b, c the subset {c} has the dictionary
\* pinning the columns of a and b, and the subset {a, b} the one pinning the
\* column of c
C20_Witness ==
    /\ last.op = "get_nchoosek_combinations"
    /\ domain.constraints = <<NChooseKConstraint(<<"a", "b", "c">>, 1, 2, FALSE)>>
    /\ \E i \in DOMAIN last.fixed_features_list :
          last.fixed_features_list[i] = (0 :> 0) @@ (1 :> 0)
    /\ \E i \in DOMAIN last.fixed_features_list :
          last.fixed_features_list[i] = (2 :> 0)
    /\ \A i \in DOMAIN last.fixed_features_list : last.fixed_features_list[i] # EmptyDict

\* C21: every dictionary of get_fixed_values_list is the shallow merge of one
\* dictionary of get_categorical_combinations and one of
\* get_nchoosek_combinations: it has every key of either, the n-choose-k value
\* on a key of the n-choose-k dictionary (also when the categorical dictionary
\* has the key) and the categorical value on the other keys
C21_MergeKeepsKeysAndNChooseKWins ==
    LET cc == get_categorical_combinations
        nk == get_nchoosek_combinations
        result == last.fixed_features_list
    IN  last.op = "get_fixed_values_list"
        => \A r \in DOMAIN result :
             \E i \in DOMAIN cc : \E j \in DOMAIN nk :
                /\ DOMAIN cc[i] \subseteq DOMAIN result[r]
                /\ DOMAIN nk[j] \subseteq DOMAIN result[r]
                /\ DOMAIN result[r] \subseteq DOMAIN cc[i] \cup DOMAIN nk[j]
                /\ \A x \in DOMAIN nk[j] : result[r][x] = nk[j][x]
                /\ \A x \in DOMAIN cc[i] \ DOMAIN nk[j] : result[r][x] = cc[i][x]

\* C21 witness: a key is in both dictionaries with different values (the fixed
\* input b of the constrained group, pinned to 3 by the base and to 0 as unused
\* feature), next to a key of the categorical dictionary alone, and the merged
\* dictionary has the n-choose-k value
C21_Witness ==
    /\ last.op = "get_fixed_values_list"
    /\ \E i \in DOMAIN get_categorical_combinations :
       \E j \in DOMAIN get_nchoosek_combinations :
       \E r \in DOMAIN last.fixed_features_list :
          LET ff1 == get_categorical_combinations[i]
              ff2 == get_nchoosek_combinations[j]
              ff == last.fixed_features_list[r]
          IN  /\ \E x \in DOMAIN ff1 \cap DOMAIN ff2 :
                    ff1[x] = 3 /\ ff2[x] = 0 /\ ff[x] = 0
              /\ \E x \in DOMAIN ff1 \ DOMAIN ff2 : ff[x] = ff1[x]
              /\ DOMAIN ff = DOMAIN ff1 \cup DOMAIN ff2

\* C22: on every domain no key of a dictionary of
\* get_categorical_combinations (base pins included) is a key of a dictionary of
\* get_nchoosek_combinations, so the merge overwrites no pin
C22_KeySetsDisjoint ==
    last.op = "get_fixed_values_list"
    => \A i \in DOMAIN get_categorical_combinations :
       \A j \in DOMAIN get_nchoosek_combinations :
          DOMAIN get_categorical_combinations[i] \cap DOMAIN get_nchoosek_combinations[j] = {}


\* C23: for every domain and every assignment of the three methods the branch
\* of ask is one of the three optimizer branches and never the fatal one: no
\* ask raises IOError, and an ask that reaches the optimizer has taken the
\* n-choose-k branch (full composed list) when a constraint is present, and
\* otherwise either the continuous branch (one dictionary, no list) or the
\* categorical branch (the categorical list), never two of them
C23_ExactlyOneBranchNeverFatal ==
    LET methods == {categorical_method, descriptor_method, discrete_method}
        continuous ==
            /\ last.optimizer = "optimize_acqf"
            /\ last.fixed_features_list = <<>>
            /\ last.fixed_features = get_fixed_features
        categorical ==
            /\ last.optimizer = "optimize_acqf_mixed"
            /\ ~has_nchoosek
            /\ EXHAUSTIVE \in methods
            /\ last.fixed_features_list = get_categorical_combinations
        nchoosek ==
            /\ last.optimizer = "optimize_acqf_mixed"
            /\ has_nchoosek
            /\ last.fixed_features_list = get_fixed_values_list
    IN  /\ AskBranch.optimizer \in {"optimize_acqf", "optimize_acqf_mixed"}
        /\ last.op = "ask"
           => /\ last.raised # "IOError"
              /\ last.optimizer # "IOError"
              /\ last.optimizer # "none"
                 => /\ continuous \/ categorical \/ nchoosek
                    /\ ~(continuous /\ categorical)
                    /\ ~(continuous /\ nchoosek)
                    /\ ~(categorical /\ nchoosek)
                    /\ has_nchoosek => nchoosek

\* C23 witness: with an n-choose-k constraint and all three methods FREE, the
\* configuration nearest to the fatal branch, a successful ask has called the
\* mixed optimizer with the composed list
C23_Witness ==
    /\ last.op = "ask"
    /\ last.raised = "none"
    /\ has_nchoosek
    /\ categorical_method = FREE /\ descriptor_method = FREE /\ discrete_method = FREE
    /\ last.optimizer = "optimize_acqf_mixed"
    /\ last.fixed_features_list = get_fixed_values_list
    /\ Len(last.fixed_features_list) > 1

\* C24 as stated: for every one-hot encoded categorical input that is not fixed
\* and has forbidden categories, get_fixed_features pins the one-hot column of
\* each forbidden category to 0 and no column of an allowed category
C24_ForbiddenCategoriesPinned ==
    LET column(f, cat) == features2idx[f.key][IndexOf(f.categories, cat)]
    IN  last.op = "get_fixed_features"
        => \A f \in Range(domain.inputs) :
              (/\ IsInstance(f, "CategoricalInput")
               /\ specs_get(f.key) = ONE_HOT
               /\ ~is_fixed(f))
              => /\ \A cat \in {f.categories[i] : i \in {k \in DOMAIN f.categories : ~f.allowed[k]}} :
                       /\ column(f, cat) \in DOMAIN last.fixed_features
                       /\ last.fixed_features[column(f, cat)] = 0
                 /\ \A cat \in {f.categories[i] : i \in {k \in DOMAIN f.categories : f.allowed[k]}} :
                       column(f, cat) \notin DOMAIN last.fixed_features

\* C24 amended: for every one-hot encoded categorical input that is not fixed,
\* get_fixed_features pins no column of an allowed category; it pins the
\* column of each forbidden category to 0 when categorical_method is FREE and
\* pins no column of the input when categorical_method is EXHAUSTIVE
C24_ForbiddenCategoriesPinnedWhenFree ==
    LET column(f, cat) == features2idx[f.key][IndexOf(f.categories, cat)]
    IN  last.op = "get_fixed_features"
        => \A f \in Range(domain.inputs) :
              (/\ IsInstance(f, "CategoricalInput")
               /\ specs_get(f.key) = ONE_HOT
               /\ ~is_fixed(f))
              => /\ \A cat \in {f.categories[i] : i \in {k \in DOMAIN f.categories : f.allowed[k]}} :
                       column(f, cat) \notin DOMAIN last.fixed_features
                 /\ categorical_method = FREE
                    => \A cat \in {f.categories[i] : i \in {k \in DOMAIN f.categories : ~f.allowed[k]}} :
                          /\ column(f, cat) \in DOMAIN last.fixed_features
                          /\ last.fixed_features[column(f, cat)] = 0
                 /\ categorical_method = EXHAUSTIVE
                    => \A cat \in {f.categories[i] : i \in {k \in DOMAIN f.categories : ~f.allowed[k]}} :
                          column(f, cat) \notin DOMAIN last.fixed_features

\* C24 witness: under categorical_method FREE the one-hot categorical d with
\* the first category forbidden has the column of that category pinned to 0
\* and its other columns free, next to the pin of the fixed input b
C24_Witness ==
    /\ last.op = "get_fixed_features"
    /\ categorical_method = FREE
    /\ \E f \in Range(domain.inputs) :
          /\ f.type = "CategoricalInput"
          /\ specs_get(f.key) = ONE_HOT
          /\ f.allowed = FirstForbidden
          /\ last.fixed_features[features2idx[f.key][1]] = 0
          /\ \A j \in 2..Len(f.categories) :
                features2idx[f.key][j] \notin DOMAIN last.fixed_features
    /\ \E x \in DOMAIN last.fixed_features : last.fixed_features[x] = 3

\* C25 as stated: for every descriptor-encoded categorical input that is not
\* fixed, get_fixed_features pins each descriptor column that has one value
\* over the allowed categories to that value and pins no descriptor column
\* that has several
C25_ConstantDescriptorsPinned ==
    LET allowed_values(f, j) ==
            {f.values[i][j] : i \in {k \in DOMAIN f.categories : f.allowed[k]}}
    IN  last.op = "get_fixed_features"
        => \A f \in Range(domain.inputs) :
              (/\ IsInstance(f, "CategoricalDescriptorInput")
               /\ specs_get(f.key) = DESCRIPTOR
               /\ ~is_fixed(f))
              => \A j \in DOMAIN features2idx[f.key] :
                    IF Cardinality(allowed_values(f, j)) = 1
                    THEN /\ features2idx[f.key][j] \in DOMAIN last.fixed_features
                         /\ last.fixed_features[features2idx[f.key][j]] \in allowed_values(f, j)
                    ELSE features2idx[f.key][j] \notin DOMAIN last.fixed_features

\* C25 amended: for every descriptor-encoded categorical input that is not
\* fixed, get_fixed_features pins no descriptor column that has several values
\* over the allowed categories; it pins each column that has one value to that
\* value when descriptor_method is FREE and pins no column of the input when
\* descriptor_method is EXHAUSTIVE
C25_ConstantDescriptorsPinnedWhenFree ==
    LET allowed_values(f, j) ==
            {f.values[i][j] : i \in {k \in DOMAIN f.categories : f.allowed[k]}}
    IN  last.op = "get_fixed_features"
        => \A f \in Range(domain.inputs) :
              (/\ IsInstance(f, "CategoricalDescriptorInput")
               /\ specs_get(f.key) = DESCRIPTOR
               /\ ~is_fixed(f))
              => \A j \in DOMAIN features2idx[f.key] :
                    IF Cardinality(allowed_values(f, j)) = 1 /\ descriptor_method = FREE
                    THEN /\ features2idx[f.key][j] \in DOMAIN last.fixed_features
                         /\ last.fixed_features[features2idx[f.key][j]] \in allowed_values(f, j)
                    ELSE features2idx[f.key][j] \notin DOMAIN last.fixed_features

\* C25 witness: under descriptor_method FREE the descriptor-encoded input with
\* the first category forbidden has its first descriptor column, 3 for every
\* allowed category, pinned to 3 and its second column, which varies, free
C25_Witness ==
    /\ last.op = "get_fixed_features"
    /\ descriptor_method = FREE
    /\ \E f \in Range(domain.inputs) :
          /\ f.type = "CategoricalDescriptorInput"
          /\ specs_get(f.key) = DESCRIPTOR
          /\ f.allowed = FirstForbidden
          /\ f.values = DescriptorValues
          /\ last.fixed_features[features2idx[f.key][1]] = 3
          /\ features2idx[f.key][2] \notin DOMAIN last.fixed_features

-----------------------------------------------------------------------------
(* Frame conditions of tell and ask, checked under Spec *)

\* C27: a tell with retrain = False, or after which the recorded experiments
\* are not sufficient, calls no fit and leaves the surrogate model, is_fitted
\* and the acquisition function as they were, and when it returns from a non-empty batch it has
\* recorded the batch (replacing or appending); no step of tell or ask takes
\* is_fitted from True to False, also not a tell(replace=True) that shrinks the
\* experiments below the threshold
C27_TellWithoutFitKeepsFittedState ==
    [][ /\ (/\ last'.op = "tell"
            /\ ~last'.args.retrain \/ ~HasSufficient(experiments'))
           => /\ is_fitted' = is_fitted
              /\ model' = model
              /\ acqf' = acqf
              /\ ~last'.fit_called
              /\ (last'.args.rows > 0 /\ last'.raised = "none")
                 => experiments' =
                        IF last'.args.replace \/ experiments = None_
                        THEN last'.args.rows
                        ELSE experiments + last'.args.rows
        /\ is_fitted => is_fitted'
      ]_vars

\* C27 witness: a fitted strategy was told a replacing batch that is too small
\* for a fit; it holds the new experiments only, is still marked as fitted and
\* still has its acquisition function
C27_Witness ==
    /\ last.op = "tell"
    /\ last.raised = "none"
    /\ last.args.replace
    /\ last.args.retrain
    /\ last.args.rows > 0
    /\ experiments = last.args.rows
    /\ ~has_sufficient_experiments
    /\ ~last.fit_called
    /\ is_fitted
    /\ acqf = "acqf"

\* C28: an ask changes neither the recorded experiments nor the fitted state
\* (is_fitted, model, acquisition function) nor the configuration; it changes the
\* pending candidates only if add_pending is true and the call returns, and
\* then their number grows by exactly candidate_count; an ask that raises
\* leaves the pending candidates as they were
C28_AskChangesOnlyPendingCandidates ==
    [][ last'.op \in {"ask", "PredictiveStrategy.ask"}
        => /\ experiments' = experiments
           /\ is_fitted' = is_fitted
           /\ model' = model
           /\ acqf' = acqf
           /\ config' = config
           /\ candidates' # candidates
              => last'.args.add_pending /\ last'.raised = "none"
           /\ (last'.args.add_pending /\ last'.raised = "none")
              => candidates' = candidates + last'.args.candidate_count[1]
           /\ last'.raised # "none" => candidates' = candidates
      ]_vars

\* C28 witness: an ask for one candidate with add_pending returned on a
\* strategy that had a candidate pending, and two candidates are pending, the
\* experiments and the fitted state being those that the ask required
C28_Witness ==
    /\ last.op = "ask"
    /\ last.raised = "none"
    /\ last.args.add_pending
    /\ last.args.candidate_count = <<1>>
    /\ candidates = 2
    /\ is_fitted
    /\ has_sufficient_experiments

-----------------------------------------------------------------------------
(* Base pins in the enumerated lists: EnumSpec and TellAskSpec *)

\* C29: when at least one of the three methods is EXHAUSTIVE, every dictionary
\* returned by get_categorical_combinations has every key of
\* get_fixed_features() with the value it has there
C29_BasePinsKeptByOverlay ==
    (/\ last.op = "get_categorical_combinations"
     /\ EXHAUSTIVE \in {categorical_method, descriptor_method, discrete_method})
    => \A r \in DOMAIN last.fixed_features_list :
       \A x \in DOMAIN get_fixed_features :
          /\ x \in DOMAIN last.fixed_features_list[r]
          /\ last.fixed_features_list[r][x] = get_fixed_features[x]

\* C29 witness: several combinations were overlaid on a base that pins the
\* fixed input b to 3 and a forbidden category or a constant descriptor of a
\* categorical of a FREE class to its value, and every dictionary has more
\* keys than the base
C29_Witness ==
    /\ last.op = "get_categorical_combinations"
    /\ EXHAUSTIVE \in {categorical_method, descriptor_method, discrete_method}
    /\ FREE \in {categorical_method, descriptor_method}
    /\ Len(last.fixed_features_list) > 1
    /\ Cardinality(DOMAIN get_fixed_features) >= 2
    /\ \E x \in DOMAIN get_fixed_features : get_fixed_features[x] = 3
    /\ \A r \in DOMAIN last.fixed_features_list :
          /\ DOMAIN get_fixed_features \subseteq DOMAIN last.fixed_features_list[r]
          /\ DOMAIN last.fixed_features_list[r] # DOMAIN get_fixed_features

\* C30: in the n-choose-k branch of ask every dictionary of the list passed to
\* the mixed optimizer pins every column of every fixed input feature that is
\* in no n-choose-k group to its fixed value, whatever the three methods are
C30_NChooseKBranchPinsFixedInputs ==
    LET grouped == UNION {Range(domain.constraints[c].features) : c \in DOMAIN domain.constraints}
    IN  (/\ last.op = "ask"
         /\ has_nchoosek
         /\ last.optimizer = "optimize_acqf_mixed")
        => \A r \in DOMAIN last.fixed_features_list :
           \A f \in Range(domain.inputs) :
              (is_fixed(f) /\ f.key \notin grouped)
              => \A j \in DOMAIN features2idx[f.key] :
                    /\ features2idx[f.key][j] \in DOMAIN last.fixed_features_list[r]
                    /\ last.fixed_features_list[r][features2idx[f.key][j]]
                          = fixed_value(f, specs_get(f.key))[j]

====
